---- MODULE Spec2Model ----
(***************************************************************************)
(* Half-edge mesh (mhintz/half-edge-mesh-rs): the mesh container, its      *)
(* weak-handle links, the adjacency iterators and the topology operations. *)
(*                                                                         *)
(* An entity is a heap object addressed by its id.  A handle (Ptr<T>) is   *)
(* an id, or Null.  upgrade() succeeds exactly when the object is still    *)
(* alive, i.e. when some strong reference (a table entry, or a local of    *)
(* the running operation) still owns it: the heap functions m.e, m.v, m.f  *)
(* have the alive objects as their domain.  Between two operations the     *)
(* only strong references are the three tables and the caller's `held`     *)
(* entities, so every other object has been dropped by then.               *)
(* Positions, normals and centers are not modelled.                        *)
(***************************************************************************)
EXTENDS Integers, Sequences, FiniteSets, TLC

\* ------------------------------------------------------------------ bounds

\* number of topology operations applied after construction
MaxSteps == 2
\* longest removal list handed to attach_point_for_faces (besides "all faces")
MaxRemove == 2
\* vertices and triangles of the meshes that PairSpec puts together by hand
NumPts == 4
MaxTris == 2
\* calls of the link setters made on one mesh (WireSpec)
MaxSets == 1

\* width in bits of the id counters in IdSpec, where the u32 of the source is
\* narrowed so that a counter can be followed to its largest value and past it
IdBits == 4
\* calls of the id functions made on one mesh (IdSpec)
MaxIds == 3

\* vertices, and triangles of the index list, handed to from_face_vertex_mesh
\* (IndexSpec)
MaxIdx == 3
MaxFaces == 3

\* largest table of which every iteration order is followed
PermLimit == 6

\* ----------------------------------------------------------------- handles

\* Ptr::empty(): the null handle
Null == 0

\* marker closing the item list of an iterator that never returns None
Diverged == -1

Put(fn, k, val) == [x \in (DOMAIN fn) \cup {k} |-> IF x = k THEN val ELSE fn[x]]

Drop(fn, S) == [x \in (DOMAIN fn) \ S |-> fn[x]]

SeqToSet(s) == {s[i] : i \in DOMAIN s}

Reverse(s) == [i \in DOMAIN s |-> s[Len(s) + 1 - i]]

\* Ptr::upgrade on an edge / vertex / face handle
EdgeAlive(m, p) == p \in DOMAIN m.e

VertAlive(m, p) == p \in DOMAIN m.v

FaceAlive(m, p) == p \in DOMAIN m.f

\* the result of an operation that did not return: a panic ("abort") or an
\* endless loop ("hang")
Stopped(res) == res \in {"abort", "hang"}

\* HalfEdgeMesh::empty
EmptyMesh ==
  [edges |-> {}, vertices |-> {}, faces |-> {},
   cur_edge_id |-> 0, cur_vert_id |-> 0, cur_face_id |-> 0,
   e |-> <<>>, v |-> <<>>, f |-> <<>>]

\* The strong references of an operation's locals end with the operation:
\* what stays alive is what the tables (and the caller, `keep`) own.
Collect(m, keepV, keepE, keepF) ==
  [m EXCEPT !.e = [x \in (m.edges \cup keepE) \cap DOMAIN m.e |-> m.e[x]],
            !.v = [x \in (m.vertices \cup keepV) \cap DOMAIN m.v |-> m.v[x]],
            !.f = [x \in (m.faces \cup keepF) \cap DOMAIN m.f |-> m.f[x]]]

\* --------------------------------------------------------------- iterators

\* a cursor that moves along edge.next whatever it walks around
StepPtrAlongNext(m, kind, cur) ==
  IF ~EdgeAlive(m, cur) THEN Null ELSE m.e[cur].next

\* the handle the cursor moves to: edge.next (around a face),
\* edge.pair.next (around a vertex); Null when an upgrade on the way fails
StepPtr(m, kind, cur) ==
  IF ~EdgeAlive(m, cur) THEN Null
  ELSE IF kind = "face" THEN m.e[cur].next
  ELSE IF EdgeAlive(m, m.e[cur].pair) THEN m.e[m.e[cur].pair].next
  ELSE Null

\* the cursor positions after the first one: merge_upgrade(next, start), then
\* the comparison of the two ids
RECURSIVE WalkRest(_, _, _, _, _)
WalkRest(m, kind, start, cur, fuel) ==
  LET nx == StepPtr(m, kind, cur) IN
  IF ~EdgeAlive(m, nx) \/ ~EdgeAlive(m, start) \/ nx = start THEN <<>>
  ELSE IF fuel = 0 THEN <<Diverged>>
  ELSE <<nx>> \o WalkRest(m, kind, start, nx, fuel - 1)

\* a walk that takes more steps than there are alive edges is in a cycle that
\* does not hold the start edge, and goes on for ever
Fuel(m) == Cardinality(DOMAIN m.e)

Diverges(s) == Diverged \in SeqToSet(s)

\* the field of the edge read at each cursor position, the divergence marker kept
MapCursor(m, s, field) ==
  [i \in DOMAIN s |-> IF s[i] = Diverged THEN Diverged ELSE m.e[s[i]][field]]

\* FaceAdjacentEdgeIterator: the first call yields the start handle unchecked
FaceAdjacentEdges(m, start) == <<start>> \o WalkRest(m, "face", start, start, Fuel(m))

\* FaceAdjacentVertIterator
FaceAdjacentVerts(m, start) ==
  IF ~EdgeAlive(m, start) THEN <<>>
  ELSE MapCursor(m, <<start>> \o WalkRest(m, "face", start, start, Fuel(m)), "origin")

\* VertAdjacentEdgeIterator
VertAdjacentEdges(m, start) ==
  IF ~EdgeAlive(m, start) THEN <<>>
  ELSE <<start>> \o WalkRest(m, "vert", start, start, Fuel(m))

\* VertAdjacentFaceIterator
VertAdjacentFaces(m, start) ==
  IF ~EdgeAlive(m, start) THEN <<>>
  ELSE MapCursor(m, <<start>> \o WalkRest(m, "vert", start, start, Fuel(m)), "face")

\* VertAdjacentVertIterator: the first call yields start.pair.origin; each later
\* call that moves the cursor from cur to cur.pair.next yields cur.pair.origin
VertAdjacentVerts(m, start) ==
  IF ~EdgeAlive(m, start) \/ ~EdgeAlive(m, m.e[start].pair) THEN <<>>
  ELSE LET cursor == <<start>> \o WalkRest(m, "vert", start, start, Fuel(m))
           PairOrigin(c) == m.e[m.e[c].pair].origin
       IN <<PairOrigin(start)>> \o
          [i \in 1..(Len(cursor) - 1) |->
             IF cursor[i + 1] = Diverged THEN Diverged ELSE PairOrigin(cursor[i])]

\* a walk around a face that yields the face of each edge, not of its pair
FaceAdjacentFacesOwn(m, start) ==
  IF ~EdgeAlive(m, start) THEN <<>>
  ELSE MapCursor(m, <<start>> \o WalkRest(m, "face", start, start, Fuel(m)), "face")

\* FaceAdjacentFaceIterator: the first call needs start.pair; a later call that
\* finds the pair of the edge it moved to gone ends the walk there
FaceAdjacentFaces(m, start) ==
  IF ~EdgeAlive(m, start) THEN <<>>
  ELSE LET cursor == <<start>> \o WalkRest(m, "face", start, start, Fuel(m))
           Unpaired == {i \in DOMAIN cursor :
                          cursor[i] # Diverged /\ ~EdgeAlive(m, m.e[cursor[i]].pair)}
           n == IF Unpaired = {} THEN Len(cursor)
                ELSE (CHOOSE i \in Unpaired : \A j \in Unpaired : i <= j) - 1
       IN [i \in 1..n |->
             IF cursor[i] = Diverged THEN Diverged ELSE m.e[m.e[cursor[i]].pair].face]

\* EdgeAdjacentVertIterator: edge.origin unchecked, then edge.next.origin
EdgeAdjacentVerts(m, e) ==
  <<m.e[e].origin>> \o
  (IF EdgeAlive(m, m.e[e].next) THEN <<m.e[m.e[e].next].origin>> ELSE <<>>)

\* EdgeAdjacentFaceIterator: edge.face unchecked, then edge.pair.face
EdgeAdjacentFaces(m, e) ==
  <<m.e[e].face>> \o
  (IF EdgeAlive(m, m.e[e].pair) THEN <<m.e[m.e[e].pair].face>> ELSE <<>>)

\* EdgeAdjacentEdgeIterator: the edges around edge.origin, then the edges
\* around edge.next.origin; either part is left out when its vertex is gone,
\* and the second is never started when the first does not end
EdgeAdjacentEdges(m, e) ==
  LET iter_1 == IF VertAlive(m, m.e[e].origin)
                THEN VertAdjacentEdges(m, m.v[m.e[e].origin].edge) ELSE <<>>
      nx == m.e[e].next
      iter_2 == IF EdgeAlive(m, nx) /\ VertAlive(m, m.e[nx].origin)
                THEN VertAdjacentEdges(m, m.v[m.e[nx].origin].edge) ELSE <<>>
  IN IF Diverges(iter_1) THEN iter_1 ELSE iter_1 \o iter_2

\* ToPtrVec::to_ptr_vec: the handles that upgrade
EdgePtrVec(m, s) == SelectSeq(s, LAMBDA p : EdgeAlive(m, p))

VertPtrVec(m, s) == SelectSeq(s, LAMBDA p : VertAlive(m, p))

FacePtrVec(m, s) == SelectSeq(s, LAMBDA p : FaceAlive(m, p))

\* Face::adjacent_edges / adjacent_verts, Vert::adjacent_edges / _faces / _verts
FaceEdges(m, f) == FaceAdjacentEdges(m, m.f[f].edge)

FaceVerts(m, f) == FaceAdjacentVerts(m, m.f[f].edge)

VertEdges(m, v) == VertAdjacentEdges(m, m.v[v].edge)

VertFaces(m, v) == VertAdjacentFaces(m, m.v[v].edge)

VertVerts(m, v) == VertAdjacentVerts(m, m.v[v].edge)

\* Face::adjacent_faces
FaceFaces(m, f) == FaceAdjacentFaces(m, m.f[f].edge)

\* Face::compute_attrs: debug_assert!(vert_list.len() == 3) where the build has
\* debug assertions, then vert_list[0], [1] and [2] are read in every build
compute_attrs(m, f, debug_assertions) ==
  LET vs == FaceVerts(m, f)
      vert_list == VertPtrVec(m, vs)
  IN IF Diverges(vs) THEN "hang"
     ELSE IF debug_assertions /\ Len(vert_list) # 3 THEN "abort"
     ELSE IF Len(vert_list) < 3 THEN "abort"
     ELSE "Ok"

\* ------------------------------------------------------ ids and registration

\* the largest value of an id counter
IdMax == 2 ^ IdBits - 1

\* a counter that stops at its largest value and hands it out again
new_id_saturating(cur, debug_assertions) ==
  [id |-> IF cur = IdMax THEN cur ELSE cur + 1, res |-> "Ok"]

\* cur += 1 on an id counter: at the largest value the addition panics where
\* the build checks overflow (as debug builds do) and wraps to 0 where it does not
new_id(cur, debug_assertions) ==
  IF cur = IdMax /\ debug_assertions THEN [id |-> cur, res |-> "abort"]
  ELSE [id |-> (cur + 1) % (IdMax + 1), res |-> "Ok"]

\* new_vert_id with Vert::empty: a vertex owned, for now, by the caller
NewVert(m) ==
  LET id == m.cur_vert_id + 1 IN
  [m EXCEPT !.cur_vert_id = id, !.v = Put(m.v, id, [edge |-> Null])]

\* push_vert, extend_verts, move_verts
PushVerts(m, vs) == [m EXCEPT !.vertices = @ \cup vs]

\* push_edge, extend_edges, move_edges
PushEdges(m, es) == [m EXCEPT !.edges = @ \cup es]

\* a variant that leaves the next link of the third edge empty
make_triangle_open(m, p1, p2, p3, debug_assertions) ==
  LET e1 == m.cur_edge_id + 1
      e2 == m.cur_edge_id + 2
      e3 == m.cur_edge_id + 3
      f1 == m.cur_face_id + 1
      vs == [[[m.v EXCEPT ![p1].edge = e1] EXCEPT ![p2].edge = e2] EXCEPT ![p3].edge = e3]
      es == Put(Put(Put(m.e,
              e1, [next |-> e2, pair |-> Null, origin |-> p1, face |-> f1]),
              e2, [next |-> e3, pair |-> Null, origin |-> p2, face |-> f1]),
              e3, [next |-> Null, pair |-> Null, origin |-> p3, face |-> f1])
      m1 == [m EXCEPT !.cur_edge_id = e3, !.cur_face_id = f1,
                      !.v = vs, !.e = es, !.f = Put(m.f, f1, [edge |-> e1])]
  IN [m |-> m1, tri |-> <<f1, e1, e2, e3>>,
      res |-> compute_attrs(m1, f1, debug_assertions)]

\* make_triangle: three edges and a face, wired, handed back unregistered
make_triangle(m, p1, p2, p3, debug_assertions) ==
  LET e1 == m.cur_edge_id + 1
      e2 == m.cur_edge_id + 2
      e3 == m.cur_edge_id + 3
      f1 == m.cur_face_id + 1
      v1 == [m.v EXCEPT ![p1].edge = e1]
      v2 == [v1 EXCEPT ![p2].edge = e2]
      v3 == [v2 EXCEPT ![p3].edge = e3]
      es == Put(Put(Put(m.e,
              e1, [next |-> e2, pair |-> Null, origin |-> p1, face |-> f1]),
              e2, [next |-> e3, pair |-> Null, origin |-> p2, face |-> f1]),
              e3, [next |-> e1, pair |-> Null, origin |-> p3, face |-> f1])
      m1 == [m EXCEPT !.cur_edge_id = e3, !.cur_face_id = f1,
                      !.v = v3, !.e = es, !.f = Put(m.f, f1, [edge |-> e1])]
  IN [m |-> m1, tri |-> <<f1, e1, e2, e3>>,
      res |-> compute_attrs(m1, f1, debug_assertions)]

\* a variant that leaves the third edge of the triangle out of the edge
\* table; the counts of C11 tell it from add_triangle
add_triangle_two_edges(m, tri) ==
  [m EXCEPT !.faces = @ \cup {tri[1]}, !.edges = @ \cup {tri[2], tri[3]}]

\* add_triangle: the face and the three edges enter the tables as they are
add_triangle(m, tri) ==
  [m EXCEPT !.faces = @ \cup {tri[1]}, !.edges = @ \cup {tri[2], tri[3], tri[4]}]

\* ---------------------------------------------------------- pairing (util.rs)

None == <<>>

\* vert_ab_key: (origin id, target id), None when a handle does not upgrade
vert_ab_key(m, e) ==
  LET o == m.e[e].origin
      n == m.e[e].next
  IN IF VertAlive(m, o) /\ EdgeAlive(m, n) /\ VertAlive(m, m.e[n].origin)
     THEN <<o, m.e[n].origin>> ELSE None

\* a variant that does not swap the two ids; the reverse-key pairing of C13
\* tells it from vert_ba_key
vert_ba_key_unswapped(m, e) == vert_ab_key(m, e)

\* vert_ba_key
vert_ba_key(m, e) ==
  LET k == vert_ab_key(m, e) IN IF k = None THEN None ELSE <<k[2], k[1]>>

\* the first loop of connect_pairs and of are_edge_pairs_valid: a later edge
\* replaces an earlier one under the same key; None when some edge has no key
RECURSIVE edge_hash(_, _, _, _)
edge_hash(m, order, i, hash) ==
  IF i > Len(order) THEN hash
  ELSE LET key == vert_ab_key(m, order[i]) IN
       IF key = None THEN None
       ELSE edge_hash(m, order, i + 1, Put(hash, key, order[i]))

\* edge.take_pair(pair_edge); pair_edge.take_pair(edge)
connect_edges(m, edge, pair_edge) ==
  LET m1 == [m EXCEPT !.e[edge].pair = pair_edge]
  IN [m1 EXCEPT !.e[pair_edge].pair = edge]

\* the second loop of connect_pairs, over the table in the same order
RECURSIVE connect_loop(_, _, _, _)
connect_loop(m, order, i, hash) ==
  IF i > Len(order) THEN [m |-> m, res |-> "Ok"]
  ELSE LET edge == order[i] IN
       IF EdgeAlive(m, m.e[edge].pair) THEN connect_loop(m, order, i + 1, hash)
       ELSE LET key == vert_ba_key(m, edge) IN
            IF key = None
            THEN [m |-> m, res |-> "Could not find reverse hash for mesh edge"]
            ELSE IF key \notin DOMAIN hash
            THEN [m |-> m, res |-> "Could not find pair edge"]
            ELSE connect_loop(connect_edges(m, edge, hash[key]), order, i + 1, hash)

\* connect_pairs; order is the iteration order of the edge table
connect_pairs(m, order) ==
  LET hash == edge_hash(m, order, 1, <<>>) IN
  IF hash = None /\ Len(order) > 0
  THEN [m |-> m, res |-> "Could not hash all mesh edges"]
  ELSE connect_loop(m, order, 1, hash)

\* the second loop of are_edge_pairs_valid
RECURSIVE valid_loop(_, _, _, _)
valid_loop(m, order, i, hash) ==
  IF i > Len(order) THEN "Ok"
  ELSE LET edge == order[i]
           key == vert_ba_key(m, edge)
       IN IF key = None THEN "Could not find reverse hash for mesh edge"
          ELSE IF key \notin DOMAIN hash THEN "Could not find a pair edge"
          ELSE LET pair == hash[key]
                   Up(p) == IF EdgeAlive(m, p) THEN p ELSE Null
               IN IF Up(m.e[edge].pair) # pair \/ Up(m.e[pair].pair) # edge
                  THEN "Pairs don't match"
                  ELSE valid_loop(m, order, i + 1, hash)

\* are_edge_pairs_valid
are_edge_pairs_valid(m, order) ==
  LET hash == edge_hash(m, order, 1, <<>>) IN
  IF hash = None /\ Len(order) > 0 THEN "Could not hash all mesh edges"
  ELSE valid_loop(m, order, 1, hash)

\* the ids of a table in ascending / descending order
RECURSIVE Ascending(_)
Ascending(S) ==
  IF S = {} THEN <<>>
  ELSE LET lo == CHOOSE x \in S : \A y \in S : x <= y
       IN <<lo>> \o Ascending(S \ {lo})

Descending(S) == Reverse(Ascending(S))

\* ------------------------------------------------------------ triangulate_face

\* a variant that registers the leading edge and the face but not the
\* trailing edge; the edge count of C10 tells it from triangulate_push
triangulate_push_leading(m, leading_edge, trailing_edge, new_face) ==
  [m EXCEPT !.edges = @ \cup {leading_edge},
            !.faces = @ \cup {new_face}]

\* push_edge(leading_edge); push_edge(trailing_edge); push_face(new_face)
triangulate_push(m, leading_edge, trailing_edge, new_face) ==
  [m EXCEPT !.edges = @ \cup {leading_edge, trailing_edge},
            !.faces = @ \cup {new_face}]

\* a variant that leaves the next link of the trailing edge empty; the
\* 3-edge loops of C2 tell it from triangulate_next
triangulate_next_open(e, base_edge, leading_edge, trailing_edge) ==
  [e EXCEPT ![base_edge].next = leading_edge,
            ![leading_edge].next = trailing_edge]

\* base_edge.take_next(leading_edge); leading_edge.take_next(trailing_edge);
\* trailing_edge.take_next(base_edge), on the edges e
triangulate_next(e, base_edge, leading_edge, trailing_edge) ==
  [e EXCEPT ![base_edge].next = leading_edge,
            ![leading_edge].next = trailing_edge,
            ![trailing_edge].next = base_edge]

\* one turn of the loop over the face's edges
RECURSIVE triangulate_loop(_, _, _, _, _, _)
triangulate_loop(st, face_edges, face_vertices, apex_vert, i, debug_assertions) ==
  IF i > Len(face_edges) \/ st.res # "Ok" THEN st
  ELSE IF i > Len(face_vertices) THEN [st EXCEPT !.res = "abort"]
  ELSE
    LET m == st.m
        base_edge == face_edges[i]
        new_face == m.cur_face_id + 1
        leading_edge == m.cur_edge_id + 1
        trailing_edge == m.cur_edge_id + 2
        vertices_len == Len(face_vertices)
        e1 == [m.e EXCEPT ![base_edge] =
                 [@ EXCEPT !.origin = face_vertices[i], !.face = new_face]]
        e2 == Put(e1, leading_edge,
                 [next |-> Null, pair |-> Null,
                  origin |-> face_vertices[(i % vertices_len) + 1], face |-> new_face])
        e3 == triangulate_next(
                Put(e2, trailing_edge,
                    [next |-> Null, pair |-> Null, origin |-> apex_vert,
                     face |-> new_face]),
                base_edge, leading_edge, trailing_edge)
        v1 == [m.v EXCEPT ![face_vertices[i]].edge = base_edge]
        v2 == [v1 EXCEPT ![apex_vert].edge = trailing_edge]
        m0 == [m EXCEPT !.cur_face_id = new_face, !.cur_edge_id = trailing_edge,
                        !.e = e3, !.v = v2,
                        !.f = Put(m.f, new_face, [edge |-> base_edge])]
        m1 == triangulate_push(m0, leading_edge, trailing_edge, new_face)
    IN triangulate_loop(
         [m |-> m1, lead |-> Append(st.lead, leading_edge),
          trail |-> Append(st.trail, trailing_edge),
          res |-> compute_attrs(m1, new_face, debug_assertions)],
         face_edges, face_vertices, apex_vert, i + 1, debug_assertions)

\* a variant that pairs the i-th leading edge with the i-th trailing edge;
\* the pairing check of C9 tells it from trailing_for
trailing_for_same(new_trail_edges, i) == new_trail_edges[i]

\* & new_trail_edges[(i + 1) % trail_edge_len], for the i-th leading edge
trailing_for(new_trail_edges, i) == new_trail_edges[(i % Len(new_trail_edges)) + 1]

\* a variant that sets the pair link of the leading edge only; the
\* involution of C1 tells it from triangulate_connect
triangulate_connect_one_way(m, leading_edge, trailing_edge) ==
  [m EXCEPT !.e[leading_edge].pair = trailing_edge]

\* leading_edge.take_pair(trailing_edge); trailing_edge.take_pair(leading_edge)
triangulate_connect(m, leading_edge, trailing_edge) ==
  LET m1 == [m EXCEPT !.e[leading_edge].pair = trailing_edge]
  IN [m1 EXCEPT !.e[trailing_edge].pair = leading_edge]

\* the loop that pairs leading edge i with trailing edge i + 1
RECURSIVE triangulate_pairs(_, _, _, _)
triangulate_pairs(m, lead, trail, i) ==
  IF i > Len(lead) THEN m
  ELSE triangulate_pairs(triangulate_connect(m, lead[i], trailing_for(trail, i)),
                         lead, trail, i + 1)

\* debug_assert!(face_edges.len() == 3) and debug_assert!(vertices_len == 3) stop
\* a build with debug assertions; another build goes on with what it found
triangulate_face(m, target_face, debug_assertions) ==
  LET edge_items == FaceEdges(m, target_face)
      vert_items == FaceVerts(m, target_face)
      face_edges == EdgePtrVec(m, edge_items)
      face_vertices == VertPtrVec(m, vert_items)
  IN IF Diverges(edge_items) \/ Diverges(vert_items) THEN [m |-> m, res |-> "hang"]
     ELSE IF debug_assertions /\ (Len(face_edges) # 3 \/ Len(face_vertices) # 3)
     THEN [m |-> m, res |-> "abort"]
     ELSE
       LET m0 == NewVert(m)
           apex_vert == m0.cur_vert_id
           st == triangulate_loop([m |-> m0, lead |-> <<>>, trail |-> <<>>, res |-> "Ok"],
                                  face_edges, face_vertices, apex_vert, 1,
                                  debug_assertions)
       IN IF st.res # "Ok" THEN [m |-> m, res |-> st.res]
          ELSE LET m1 == PushVerts(st.m, {apex_vert})
                   m2 == triangulate_pairs(m1, st.lead, st.trail, 1)
                   m3 == [m2 EXCEPT !.faces = @ \ {target_face}]
               IN [m |-> Collect(m3, {}, {}, {}), res |-> "Ok"]

\* ----------------------------------------------------------------- remove_vert

\* a variant that moves the edge to the new face and leaves its next link
\* alone; the restored boundary loop of C26 tells it from remove_vert_relink
remove_vert_relink_face_only(m, next, after_next, new_face) ==
  LET o == m.e[next].origin IN
  [m EXCEPT !.e[next] = [@ EXCEPT !.face = new_face],
            !.f[new_face].edge = next,
            !.v = IF VertAlive(m, o) THEN [@ EXCEPT ![o].edge = next] ELSE @]

\* e.n.f = n_f ; e.n.n = (e + 1).n ; n_f.e = e.n ; e.n.o.e = e.n
remove_vert_relink(m, next, after_next, new_face) ==
  LET o == m.e[next].origin IN
  [m EXCEPT !.e[next] = [@ EXCEPT !.face = new_face, !.next = after_next],
            !.f[new_face].edge = next,
            !.v = IF VertAlive(m, o) THEN [@ EXCEPT ![o].edge = next] ELSE @]

\* a variant that refuses fewer than 3 edges only; the refusal of C6 tells
\* it from remove_vert_refused
remove_vert_refused_below(edges) == Len(edges) < 3

\* if edges.len() != 3 { return Err(..) }
remove_vert_refused(edges) == Len(edges) # 3

\* one turn of the loop over the (reversed) edges of the vertex.  RefCell: the
\* turn holds edge borrowed, next mutably borrowed, and vert borrowed throughout
RECURSIVE remove_vert_loop(_, _, _, _, _)
remove_vert_loop(st, vert, edges, new_face, idx) ==
  IF idx > Len(edges) \/ st.res # "Ok" THEN st
  ELSE
    LET m == st.m
        edge == edges[idx]
        after == edges[(idx % Len(edges)) + 1]
        next == m.e[edge].next
        o == m.e[next].origin
        borrow_fails ==
          /\ EdgeAlive(m, next)
          /\ \/ next = edge
             \/ next = after
             \/ VertAlive(m, o) /\ o = vert
        m1 == IF ~EdgeAlive(m, next) THEN m
              ELSE remove_vert_relink(m, next, m.e[after].next, new_face)
        pair == m1.e[edge].pair
        \* del e.p : the table owned the pair edge, unless it is one of `edges`
        m2 == IF ~EdgeAlive(m1, pair) THEN m1
              ELSE [m1 EXCEPT !.edges = @ \ {pair},
                              !.e = IF pair \in SeqToSet(edges) THEN @
                                    ELSE Drop(@, {pair})]
        \* del e : `edges` keeps it alive until the function returns
        m3 == [m2 EXCEPT !.edges = @ \ {edge}]
    IN IF borrow_fails THEN [m |-> m, res |-> "abort"]
       ELSE remove_vert_loop([m |-> m3, res |-> "Ok"], vert, edges, new_face, idx + 1)

remove_vert(m, vert, debug_assertions) ==
  LET edge_items == VertEdges(m, vert)
      edges == Reverse(EdgePtrVec(m, edge_items))
  IN IF Diverges(edge_items) THEN [m |-> m, res |-> "hang"]
     ELSE IF remove_vert_refused(edges)
     THEN [m |-> m, res |-> "Vertex must have exactly 3 connecting edges"]
     ELSE
       LET new_face == m.cur_face_id + 1
           m0 == [m EXCEPT !.cur_face_id = new_face,
                           !.f = Put(m.f, new_face, [edge |-> Null])]
           st == remove_vert_loop([m |-> m0, res |-> "Ok"], vert, edges, new_face, 1)
           m1 == st.m
           \* push_face(n_f)
           m2 == [m1 EXCEPT !.faces = @ \cup {new_face}]
           \* del f for f in v.faces : walked on the mesh as the loop left it
           face_items == VertFaces(m2, vert)
           m3 == [m2 EXCEPT !.faces = @ \ SeqToSet(FacePtrVec(m2, face_items))]
           m4 == [m3 EXCEPT !.vertices = @ \ {vert}]
           attrs == compute_attrs(m1, new_face, debug_assertions)
       IN IF st.res # "Ok" THEN [m |-> m, res |-> st.res]
          ELSE IF attrs # "Ok" THEN [m |-> m, res |-> attrs]
          ELSE IF Diverges(face_items) THEN [m |-> m, res |-> "hang"]
          ELSE [m |-> Collect(m4, {}, {}, {}), res |-> "Ok"]

\* ------------------------------------------------------ attach_point_for_faces

\* a variant that redirects the origin's edge pointer for a removed edge
\* too; the unchanged mesh of C5 tells it from classify_edge
classify_edge_redirect_all(st, outgoing_face_ids, face_edge) ==
    LET m == st.m
        p == m.e[face_edge].pair
        remove_edge ==
          IF EdgeAlive(m, p) /\ FaceAlive(m, m.e[p].face)
          THEN m.e[p].face \in outgoing_face_ids
          ELSE TRUE
        o == m.e[face_edge].origin
        redirected == IF VertAlive(m, o) THEN [m.v EXCEPT ![o].edge = face_edge] ELSE m.v
    IN IF remove_edge
       THEN [st EXCEPT !.m.v = redirected,
                       !.remove_edges = Append(@, face_edge)]
       ELSE [st EXCEPT
               !.m.v = redirected,
               !.iter_edge = IF @ = Null THEN face_edge ELSE @,
               !.horizon_edges = @ \cup {face_edge}]

\* a variant that takes the first boundary edge met as the start of the
\* walk, on the horizon or not
classify_edge_start_any(st, outgoing_face_ids, face_edge) ==
    LET m == st.m
        p == m.e[face_edge].pair
        remove_edge ==
          IF EdgeAlive(m, p) /\ FaceAlive(m, m.e[p].face)
          THEN m.e[p].face \in outgoing_face_ids
          ELSE TRUE
        o == m.e[face_edge].origin
    IN IF remove_edge
       THEN [st EXCEPT !.iter_edge = IF @ = Null THEN face_edge ELSE @,
                       !.remove_edges = Append(@, face_edge)]
       ELSE [st EXCEPT
               !.m.v = IF VertAlive(m, o) THEN [@ EXCEPT ![o].edge = face_edge] ELSE @,
               !.iter_edge = IF @ = Null THEN face_edge ELSE @,
               !.horizon_edges = @ \cup {face_edge}]

\* the classification of one boundary edge of a face to remove: an edge
\* whose pair's face goes too is removed, any other edge is on the horizon
classify_edge(st, outgoing_face_ids, face_edge) ==
    LET m == st.m
        p == m.e[face_edge].pair
        remove_edge ==
          IF EdgeAlive(m, p) /\ FaceAlive(m, m.e[p].face)
          THEN m.e[p].face \in outgoing_face_ids
          ELSE TRUE
        o == m.e[face_edge].origin
    IN IF remove_edge
       THEN [st EXCEPT !.remove_edges = Append(@, face_edge)]
       ELSE [st EXCEPT
               !.m.v = IF VertAlive(m, o) THEN [@ EXCEPT ![o].edge = face_edge] ELSE @,
               !.iter_edge = IF @ = Null THEN face_edge ELSE @,
               !.horizon_edges = @ \cup {face_edge}]

\* the loop over the boundary edges of one face to remove
RECURSIVE classify_edges(_, _, _, _)
classify_edges(st, outgoing_face_ids, face_edges, i) ==
  IF i > Len(face_edges) THEN st
  ELSE classify_edges(classify_edge(st, outgoing_face_ids, face_edges[i]),
                      outgoing_face_ids, face_edges, i + 1)

\* the classification of one boundary vertex: .all() stops at the first face
\* that stays, and never stops on an endless walk past faces that all go
RECURSIVE classify_verts(_, _, _, _)
classify_verts(st, outgoing_face_ids, face_verts, i) ==
  IF i > Len(face_verts) \/ st.res # "Ok" THEN st
  ELSE
    LET m == st.m
        face_vert == face_verts[i]
        items == VertFaces(m, face_vert)
        stays == \E k \in DOMAIN items :
                   /\ items[k] # Diverged
                   /\ FaceAlive(m, items[k])
                   /\ items[k] \notin outgoing_face_ids
        st1 == IF stays THEN st
               ELSE IF Diverges(items) THEN [st EXCEPT !.res = "hang"]
               ELSE [st EXCEPT !.remove_verts = Append(@, face_vert)]
    IN classify_verts(st1, outgoing_face_ids, face_verts, i + 1)

\* the first loop, over the faces to remove
RECURSIVE classify_faces(_, _, _, _)
classify_faces(st, outgoing_face_ids, remove_faces, i) ==
  IF i > Len(remove_faces) \/ st.res # "Ok" THEN st
  ELSE
    LET out_face == remove_faces[i]
        edge_items == FaceEdges(st.m, out_face)
        st1 == classify_edges(st, outgoing_face_ids, EdgePtrVec(st.m, edge_items), 1)
        vert_items == FaceVerts(st1.m, out_face)
        st2 == classify_verts(st1, outgoing_face_ids, VertPtrVec(st1.m, vert_items), 1)
    IN IF Diverges(edge_items) \/ Diverges(vert_items) THEN [st EXCEPT !.res = "hang"]
       ELSE classify_faces(st2, outgoing_face_ids, remove_faces, i + 1)

\* the horizon edges met, in order, around the target vertex of h_edge
horizon_candidates(m, horizon_edges, h_edge) ==
  LET n == m.e[h_edge].next IN
  IF EdgeAlive(m, n) /\ VertAlive(m, m.e[n].origin)
  THEN SelectSeq(VertEdges(m, m.e[n].origin),
                 LAMBDA a : a = Diverged \/ (EdgeAlive(m, a) /\ a \in horizon_edges))
  ELSE <<>>

\* horizon_next_map: each horizon edge to the first horizon edge found
\* around its target vertex (no entry when there is none)
horizon_next_map(m, horizon_edges) ==
  [h \in {x \in horizon_edges : horizon_candidates(m, horizon_edges, x) # <<>>} |->
     horizon_candidates(m, horizon_edges, h)[1]]

\* the loop that lines the horizon up from the first horizon edge found;
\* self.edges[&id] and horizon_next_map[&id] abort on a missing key
RECURSIVE horizon_walk(_, _, _, _, _)
horizon_walk(m, next_map, start_id, iter_id, acc) ==
  IF iter_id \notin m.edges \/ iter_id \notin DOMAIN next_map
  THEN [vec |-> acc, res |-> "abort"]
  ELSE IF next_map[iter_id] = start_id
  THEN [vec |-> Append(acc, iter_id), res |-> "Ok"]
  ELSE IF Len(acc) > Cardinality(DOMAIN next_map)
  THEN [vec |-> acc, res |-> "hang"]
  ELSE horizon_walk(m, next_map, start_id, next_map[iter_id], Append(acc, iter_id))

\* the loop that builds one face per horizon edge
RECURSIVE attach_faces(_, _, _, _, _)
attach_faces(st, horizon_vec, apex_vert, idx, debug_assertions) ==
  IF idx > Len(horizon_vec) \/ st.res # "Ok" THEN st
  ELSE
    LET m == st.m
        base_edge == horizon_vec[idx]
        next_edge == horizon_vec[(idx % Len(horizon_vec)) + 1]
        next_origin == m.e[next_edge].origin
        new_face == m.cur_face_id + 1
        new_leading == m.cur_edge_id + 1
        new_trailing == m.cur_edge_id + 2
        e1 == Put(m.e, new_leading,
                 [next |-> new_trailing, pair |-> Null, origin |-> next_origin,
                  face |-> new_face])
        e2 == Put(e1, new_trailing,
                 [next |-> base_edge, pair |-> Null, origin |-> apex_vert,
                  face |-> new_face])
        e3 == [e2 EXCEPT ![base_edge] = [@ EXCEPT !.next = new_leading, !.face = new_face]]
        m1 == [m EXCEPT !.cur_face_id = new_face, !.cur_edge_id = new_trailing,
                        !.e = e3, !.v[apex_vert].edge = new_trailing,
                        !.f = Put(m.f, new_face, [edge |-> base_edge]),
                        !.edges = @ \cup {new_leading, new_trailing},
                        !.faces = @ \cup {new_face}]
    IN IF ~VertAlive(m, next_origin)
       THEN [st EXCEPT !.res = "Could not set up horizon faces correctly"]
       \* next_edge stays borrowed through the body, which borrows base_edge mutably
       ELSE IF next_edge = base_edge THEN [st EXCEPT !.res = "abort"]
       ELSE attach_faces(
              [m |-> m1, return_faces |-> Append(st.return_faces, new_face),
               res |-> compute_attrs(m1, new_face, debug_assertions)],
              horizon_vec, apex_vert, idx + 1, debug_assertions)

\* next_rc.set_pair_rc(pair_rc); pair_rc.set_pair_rc(next_rc)
attach_connect(m, next_rc, pair_rc) ==
  LET m1 == [m EXCEPT !.e[next_rc].pair = pair_rc]
  IN [m1 EXCEPT !.e[pair_rc].pair = next_rc]

\* the second pass: edge.next pairs with (edge + 1).next.next
RECURSIVE attach_pairs(_, _, _)
attach_pairs(st, horizon_vec, idx) ==
  IF idx > Len(horizon_vec) \/ st.res # "Ok" THEN st
  ELSE
    LET m == st.m
        base_edge == horizon_vec[idx]
        next_edge == horizon_vec[(idx % Len(horizon_vec)) + 1]
        next_rc == m.e[base_edge].next
        nn == m.e[next_edge].next
        pair_rc == IF EdgeAlive(m, nn) THEN m.e[nn].next ELSE Null
    IN IF ~EdgeAlive(m, next_rc) \/ ~EdgeAlive(m, pair_rc)
       THEN [st EXCEPT !.res = "Could not connect pair edges"]
       ELSE attach_pairs([st EXCEPT !.m = attach_connect(m, next_rc, pair_rc)],
                         horizon_vec, idx + 1)

\* Ok(return_faces), or the error of the second pass, with the mesh as the
\* function leaves it
attach_return(b, return_faces) ==
  [m |-> Collect(b.m, {}, {}, {}), res |-> b.res,
   ret |-> IF b.res = "Ok" THEN return_faces ELSE <<>>]

\* after the first pass a: push_vert(apex_vert), then the second pass
attach_second_pass(m, a, horizon_vec, apex_vert) ==
  IF Stopped(a.res) THEN [m |-> m, res |-> a.res, ret |-> <<>>]
  ELSE IF a.res # "Ok"
  THEN [m |-> Collect(a.m, {}, {}, {}), res |-> a.res, ret |-> <<>>]
  ELSE attach_return(
         attach_pairs([m |-> PushVerts(a.m, {apex_vert}), res |-> "Ok"], horizon_vec, 1),
         a.return_faces)

\* the first pass over horizon_vec, on the mesh m2 that holds the apex vertex
attach_first_pass(m, m2, horizon_vec, debug_assertions) ==
  attach_second_pass(
    m,
    attach_faces([m |-> m2, return_faces |-> <<>>, res |-> "Ok"],
                 horizon_vec, m2.cur_vert_id, 1, debug_assertions),
    horizon_vec, m2.cur_vert_id)

\* the removal of the faces, vertices and edges that the first loop marked:
\* they die with their table entries, except the edges that horizon_edges and
\* horizon_vec still own; then the apex vertex is made
attach_remove(m, c, outgoing_face_ids, horizon_vec, debug_assertions) ==
  attach_first_pass(
    m,
    NewVert([c.m EXCEPT !.faces = @ \ outgoing_face_ids,
                        !.vertices = @ \ SeqToSet(c.remove_verts),
                        !.v = Drop(@, SeqToSet(c.remove_verts)),
                        !.edges = @ \ SeqToSet(c.remove_edges),
                        !.e = Drop(@, SeqToSet(c.remove_edges) \ c.horizon_edges)]),
    horizon_vec, debug_assertions)

\* a variant without the closed-loop check: the walk starts on any horizon map
attach_line_up_unchecked(m, c, outgoing_face_ids, next_map, walk, debug_assertions) ==
  IF walk.res # "Ok" THEN [m |-> m, res |-> walk.res, ret |-> <<>>]
  ELSE attach_remove(m, c, outgoing_face_ids, walk.vec, debug_assertions)

\* the closed-loop check on horizon_next_map, then the walk that fills
\* horizon_vec; an Err here returns the mesh as the first loop left it
attach_line_up(m, c, outgoing_face_ids, next_map, walk, debug_assertions) ==
  IF DOMAIN next_map # {next_map[h] : h \in DOMAIN next_map}
  THEN [m |-> Collect(c.m, {}, {}, {}),
        res |-> "Horizon is malformed - it does not form a connected loop",
        ret |-> <<>>]
  ELSE IF walk.res # "Ok" THEN [m |-> m, res |-> walk.res, ret |-> <<>>]
  ELSE attach_remove(m, c, outgoing_face_ids, walk.vec, debug_assertions)

\* what follows the first loop, whose outcome is c
attach_horizon(m, c, outgoing_face_ids, next_map, debug_assertions) ==
  IF c.res # "Ok" THEN [m |-> m, res |-> c.res, ret |-> <<>>]
  ELSE IF c.iter_edge = Null
  THEN [m |-> Collect(c.m, {}, {}, {}), res |-> "No horizon edges found", ret |-> <<>>]
  ELSE IF \E h \in c.horizon_edges :
            horizon_candidates(c.m, c.horizon_edges, h) = <<Diverged>>
  THEN [m |-> m, res |-> "hang", ret |-> <<>>]
  ELSE attach_line_up(m, c, outgoing_face_ids, next_map,
                      horizon_walk(c.m, next_map, c.iter_edge, c.iter_edge, <<>>),
                      debug_assertions)

\* the first loop, then the map from each horizon edge to the next
attach_classified(m, c, outgoing_face_ids, debug_assertions) ==
  attach_horizon(m, c, outgoing_face_ids,
                 IF c.res = "Ok" THEN horizon_next_map(c.m, c.horizon_edges) ELSE <<>>,
                 debug_assertions)

attach_point_for_faces(m, remove_faces, debug_assertions) ==
  attach_classified(
    m,
    classify_faces(
      [m |-> m, horizon_edges |-> {}, remove_edges |-> <<>>,
       remove_verts |-> <<>>, iter_edge |-> Null, res |-> "Ok"],
      SeqToSet(remove_faces), remove_faces, 1),
    SeqToSet(remove_faces), debug_assertions)

\* ---------------------------------------------------------------- constructors

\* make_triangle then add_triangle, for each triple of a list
RECURSIVE add_triangles(_, _, _)
add_triangles(m, tris, i) ==
  IF i > Len(tris) THEN m
  ELSE LET t == make_triangle(m, tris[i][1], tris[i][2], tris[i][3], TRUE)
       IN add_triangles(add_triangle(t.m, t.tri), tris, i + 1)

RECURSIVE new_verts(_, _)
new_verts(m, n) == IF n = 0 THEN m ELSE new_verts(NewVert(m), n - 1)

\* every order of the elements of S
RECURSIVE Perms(_)
Perms(S) ==
  IF S = {} THEN {<<>>}
  ELSE UNION {{<<x>> \o q : q \in Perms(S \ {x})} : x \in S}

\* HashMap::values(): the iteration orders of a table that the model follows;
\* all of them for a small table, the two id orders for a larger one
TableOrders(S) ==
  IF Cardinality(S) <= PermLimit THEN Perms(S) ELSE {Ascending(S), Descending(S)}

\* from_tetrahedron_pts, connect_pairs walking the edge table in `order`
from_tetrahedron_pts(descending) ==
  LET m0 == new_verts(EmptyMesh, 4)
      m1 == add_triangles(m0, << <<1, 2, 3>>, <<2, 1, 4>>, <<3, 4, 1>>, <<4, 3, 2>> >>, 1)
      m2 == PushVerts(m1, {1, 2, 3, 4})
  IN connect_pairs(m2, IF descending THEN Descending(m2.edges) ELSE Ascending(m2.edges)).m

\* from_octahedron_pts
from_octahedron_pts(descending) ==
  LET m0 == new_verts(EmptyMesh, 6)
      m1 == add_triangles(m0,
              << <<1, 2, 3>>, <<1, 4, 2>>, <<1, 3, 5>>, <<1, 5, 4>>,
                 <<6, 3, 2>>, <<6, 2, 4>>, <<6, 5, 3>>, <<6, 4, 5>> >>, 1)
      m2 == PushVerts(m1, {1, 2, 3, 4, 5, 6})
  IN connect_pairs(m2, IF descending THEN Descending(m2.edges) ELSE Ascending(m2.edges)).m

\* new_edges of one triangle: an edge for every index that id_map knows, in
\* the order of the indices
RECURSIVE tri_edges(_, _, _, _, _)
tri_edges(m, known, face, first, k) ==
  IF k > Len(known) THEN m
  ELSE
    LET edge == first + k - 1
        m1 == [m EXCEPT
                 !.cur_edge_id = edge,
                 !.e = Put(@, edge, [next |-> Null, pair |-> Null,
                                     origin |-> known[k], face |-> face]),
                 !.v[known[k]].edge = edge]
    IN tri_edges(m1, known, face, first, k + 1)

\* set_next_rc(&new_edges[(idx + 1) % n_edge_len]) for each new edge
RECURSIVE tri_next(_, _, _, _)
tri_next(m, first, n_edge_len, k) ==
  IF k > n_edge_len THEN m
  ELSE tri_next([m EXCEPT !.e[first + k - 1].next = first + (k % n_edge_len)],
                first, n_edge_len, k + 1)

\* one turn of the loop over the index list: a face, its edges, their next
\* links, the face's edge, push_edge for each edge, push_face
face_vertex_tri(m, tri, debug_assertions) ==
  LET face == m.cur_face_id + 1
      first == m.cur_edge_id + 1
      known == SelectSeq(tri, LAMBDA idx : idx \in m.vertices)
      n_edge_len == Len(known)
      m0 == [m EXCEPT !.cur_face_id = face, !.f = Put(@, face, [edge |-> Null])]
      m1 == tri_next(tri_edges(m0, known, face, first, 1), first, n_edge_len, 1)
      m2 == IF n_edge_len > 0 THEN [m1 EXCEPT !.f[face].edge = first] ELSE m1
      m3 == [PushEdges(m2, first..(first + n_edge_len - 1)) EXCEPT !.faces = @ \cup {face}]
  IN [m |-> m3, res |-> compute_attrs(m3, face, debug_assertions)]

\* the loop over the index list
RECURSIVE face_vertex_tris(_, _, _, _)
face_vertex_tris(st, indices, i, debug_assertions) ==
  IF i > Len(indices) \/ st.res # "Ok" THEN st
  ELSE face_vertex_tris(face_vertex_tri(st.m, indices[i], debug_assertions),
                        indices, i + 1, debug_assertions)

\* from_face_vertex_mesh on n vertices: the mesh is returned whatever
\* connect_pairs answered; connected holds that answer
from_face_vertex_mesh(n, indices, descending, debug_assertions) ==
  LET m0 == new_verts(EmptyMesh, n)
      st == face_vertex_tris([m |-> PushVerts(m0, 1..n), res |-> "Ok"], indices, 1,
                             debug_assertions)
      c == connect_pairs(st.m, IF descending THEN Descending(st.m.edges)
                               ELSE Ascending(st.m.edges))
  IN IF st.res # "Ok" THEN [m |-> st.m, res |-> st.res, connected |-> None]
     ELSE [m |-> c.m, res |-> "Ok", connected |-> c.res]

\* ------------------------------------------------------------------ the system

VARIABLES
  mesh,              \* the HalfEdgeMesh
  pre,               \* the mesh as it was when the last operation was called
  last,              \* the last operation: its name, its arguments, its result
  steps,             \* operations applied so far (Spec)
  held,              \* the triangle make_triangle returned, not yet added (PairSpec)
  issued,            \* the ids the id functions have handed out (IdSpec)
  debug_assertions   \* whether the build checks debug_assert!

vars == <<mesh, pre, last, steps, held, issued, debug_assertions>>

Init ==
  /\ mesh \in {from_tetrahedron_pts(d) : d \in BOOLEAN}
               \cup {from_octahedron_pts(d) : d \in BOOLEAN}
  /\ pre = mesh
  /\ last = [op |-> "new", arg |-> <<>>, res |-> "Ok", ret |-> <<>>]
  /\ steps = 0
  /\ held = <<>>
  /\ issued = <<>>
  /\ debug_assertions \in BOOLEAN

CanCall == steps < MaxSteps /\ ~Stopped(last.res)

\* the sequences of n distinct elements of S
DistinctSeqs(S, n) == {s \in [1..n -> S] : \A i, j \in 1..n : i # j => s[i] # s[j]}

\* the removal lists tried: up to MaxRemove distinct registered faces in any
\* order, and the whole face table
RemovalLists(m) ==
  UNION {DistinctSeqs(m.faces, n) : n \in 0..MaxRemove} \cup {Ascending(m.faces)}

TriangulateFace(target_face) ==
  /\ CanCall
  /\ LET r == triangulate_face(mesh, target_face, debug_assertions) IN
     /\ mesh' = r.m
     /\ last' = [op |-> "triangulate_face", arg |-> <<target_face>>, res |-> r.res,
                 ret |-> <<>>]
  /\ pre' = mesh
  /\ steps' = steps + 1
  /\ UNCHANGED <<issued, held, debug_assertions>>

AttachPointForFaces(remove_faces) ==
  /\ CanCall
  /\ LET r == attach_point_for_faces(mesh, remove_faces, debug_assertions) IN
     /\ mesh' = r.m
     /\ last' = [op |-> "attach_point_for_faces", arg |-> remove_faces, res |-> r.res,
                 ret |-> r.ret]
  /\ pre' = mesh
  /\ steps' = steps + 1
  /\ UNCHANGED <<issued, held, debug_assertions>>

RemoveVert(vert) ==
  /\ CanCall
  /\ LET r == remove_vert(mesh, vert, debug_assertions) IN
     /\ mesh' = r.m
     /\ last' = [op |-> "remove_vert", arg |-> <<vert>>, res |-> r.res, ret |-> <<>>]
  /\ pre' = mesh
  /\ steps' = steps + 1
  /\ UNCHANGED <<issued, held, debug_assertions>>

\* Vert::adjacent_verts, run to its end; ret holds the handles it yielded
AdjacentVerts(vert) ==
  /\ CanCall
  /\ LET items == VertVerts(mesh, vert) IN
     last' = [op |-> "Vert.adjacent_verts", arg |-> <<vert>>,
              res |-> IF Diverges(items) THEN "hang" ELSE "Ok",
              ret |-> IF Diverges(items) THEN <<>> ELSE items]
  /\ mesh' = mesh
  /\ pre' = mesh
  /\ steps' = steps + 1
  /\ UNCHANGED <<issued, held, debug_assertions>>

\* Vert::adjacent_edges, run to its end
AdjacentEdges(vert) ==
  /\ CanCall
  /\ LET items == VertEdges(mesh, vert) IN
     last' = [op |-> "Vert.adjacent_edges", arg |-> <<vert>>,
              res |-> IF Diverges(items) THEN "hang" ELSE "Ok",
              ret |-> IF Diverges(items) THEN <<>> ELSE items]
  /\ mesh' = mesh
  /\ pre' = mesh
  /\ steps' = steps + 1
  /\ UNCHANGED <<issued, held, debug_assertions>>

\* Vert::adjacent_faces, run to its end
AdjacentFaces(vert) ==
  /\ CanCall
  /\ LET items == VertFaces(mesh, vert) IN
     last' = [op |-> "Vert.adjacent_faces", arg |-> <<vert>>,
              res |-> IF Diverges(items) THEN "hang" ELSE "Ok",
              ret |-> IF Diverges(items) THEN <<>> ELSE items]
  /\ mesh' = mesh
  /\ pre' = mesh
  /\ steps' = steps + 1
  /\ UNCHANGED <<issued, held, debug_assertions>>

AreEdgePairsValid(order) ==
  /\ CanCall
  /\ last' = [op |-> "are_edge_pairs_valid", arg |-> <<>>,
              res |-> are_edge_pairs_valid(mesh, order), ret |-> <<>>]
  /\ mesh' = mesh
  /\ pre' = mesh
  /\ steps' = steps + 1
  /\ UNCHANGED <<issued, held, debug_assertions>>

Next ==
  \/ \E target_face \in mesh.faces : TriangulateFace(target_face)
  \/ \E remove_faces \in RemovalLists(mesh) : AttachPointForFaces(remove_faces)
  \/ \E vert \in mesh.vertices : RemoveVert(vert)
  \/ \E vert \in mesh.vertices : AdjacentVerts(vert)
  \/ \E vert \in mesh.vertices : AdjacentEdges(vert)
  \/ \E vert \in mesh.vertices : AdjacentFaces(vert)
  \/ \E order \in TableOrders(mesh.edges) : AreEdgePairsValid(order)

Spec == Init /\ [][Next]_vars

\* connect_pairs called again on a mesh the constructors paired
ConnectPairs(order) ==
  /\ CanCall
  /\ LET r == connect_pairs(mesh, order) IN
     /\ mesh' = r.m
     /\ last' = [op |-> "connect_pairs", arg |-> <<>>, res |-> r.res, ret |-> <<>>]
  /\ pre' = mesh
  /\ steps' = steps + 1
  /\ UNCHANGED <<issued, held, debug_assertions>>

\* the operations of Spec and connect_pairs
FallibleNext ==
  \/ Next
  \/ \E order \in TableOrders(mesh.edges) : ConnectPairs(order)

FallibleSpec == Init /\ [][FallibleNext]_vars

\* ------------------------------------------- meshes put together by hand

\* NumPts vertices made and pushed, as from_face_vertex_mesh starts; triangles
\* are then made over three distinct vertices, the one of least id first
PairInit ==
  /\ mesh = PushVerts(new_verts(EmptyMesh, NumPts), 1..NumPts)
  /\ pre = mesh
  /\ last = [op |-> "new", arg |-> <<>>, res |-> "Ok", ret |-> <<>>]
  /\ steps = 0
  /\ held = <<>>
  /\ issued = <<>>
  /\ debug_assertions \in BOOLEAN

PairMakeTriangle(p1, p2, p3) ==
  /\ held = <<>>
  /\ ~Stopped(last.res)
  /\ mesh.cur_face_id < MaxTris
  /\ LET r == make_triangle(mesh, p1, p2, p3, debug_assertions) IN
     /\ mesh' = r.m
     /\ held' = IF r.res = "Ok" THEN r.tri ELSE <<>>
     /\ last' = [op |-> "make_triangle", arg |-> <<p1, p2, p3>>, res |-> r.res,
                 ret |-> r.tri]
  /\ pre' = mesh
  /\ UNCHANGED <<issued, steps, debug_assertions>>

PairAddTriangle ==
  /\ held # <<>>
  /\ mesh' = add_triangle(mesh, held)
  /\ held' = <<>>
  /\ last' = [op |-> "add_triangle", arg |-> held, res |-> "Ok", ret |-> <<>>]
  /\ pre' = mesh
  /\ UNCHANGED <<issued, steps, debug_assertions>>

PairConnect(order) ==
  /\ held = <<>>
  /\ ~Stopped(last.res)
  /\ LET r == connect_pairs(mesh, order) IN
     /\ mesh' = r.m
     /\ last' = [op |-> "connect_pairs", arg |-> <<>>, res |-> r.res, ret |-> <<>>]
  /\ pre' = mesh
  /\ UNCHANGED <<issued, steps, held, debug_assertions>>

PairVerify(order) ==
  /\ held = <<>>
  /\ ~Stopped(last.res)
  /\ last' = [op |-> "are_edge_pairs_valid", arg |-> <<>>,
              res |-> are_edge_pairs_valid(mesh, order), ret |-> <<>>]
  /\ mesh' = mesh
  /\ pre' = mesh
  /\ UNCHANGED <<issued, steps, held, debug_assertions>>

PairNext ==
  \/ \E p1, p2, p3 \in mesh.vertices :
       /\ p1 < p2 /\ p1 < p3 /\ p2 # p3
       /\ PairMakeTriangle(p1, p2, p3)
  \/ PairAddTriangle
  \/ \E order \in TableOrders(mesh.edges) : PairConnect(order)
  \/ \E order \in TableOrders(mesh.edges) : PairVerify(order)

PairSpec == PairInit /\ [][PairNext]_vars

\* ------------------------------------------- triangles over any three vertices

\* make_triangle takes any three vertex handles, the same one twice or three
\* times included; add_triangle registers what it returned
TriangleNext ==
  \/ \E p1, p2, p3 \in mesh.vertices : PairMakeTriangle(p1, p2, p3)
  \/ PairAddTriangle

TriangleSpec == PairInit /\ [][TriangleNext]_vars

\* ------------------------------------------------- faces entering the table

\* Face::empty and three Edge::empty, made by the caller with fresh ids and
\* left unwired
EmptyTriangle ==
  /\ held = <<>>
  /\ ~Stopped(last.res)
  /\ mesh.cur_face_id < MaxTris
  /\ LET f1 == mesh.cur_face_id + 1
         e1 == mesh.cur_edge_id + 1
         blank == [next |-> Null, pair |-> Null, origin |-> Null, face |-> Null]
     IN /\ mesh' = [mesh EXCEPT !.cur_face_id = f1, !.cur_edge_id = e1 + 2,
                                !.f = Put(@, f1, [edge |-> Null]),
                                !.e = Put(Put(Put(@, e1, blank), e1 + 1, blank),
                                          e1 + 2, blank)]
        /\ held' = <<f1, e1, e1 + 1, e1 + 2>>
        /\ last' = [op |-> "Face.empty", arg |-> <<>>, res |-> "Ok",
                    ret |-> <<f1, e1, e1 + 1, e1 + 2>>]
  /\ pre' = mesh
  /\ UNCHANGED <<issued, steps, debug_assertions>>

\* push_face: compute_attrs on the face, then the insertion
PushFace ==
  /\ held # <<>>
  /\ LET attrs == compute_attrs(mesh, held[1], debug_assertions) IN
     /\ mesh' = IF attrs = "Ok"
                THEN Collect([mesh EXCEPT !.faces = @ \cup {held[1]}], {}, {}, {})
                ELSE mesh
     /\ last' = [op |-> "push_face", arg |-> <<held[1]>>, res |-> attrs, ret |-> <<>>]
  /\ held' = <<>>
  /\ pre' = mesh
  /\ UNCHANGED <<issued, steps, debug_assertions>>

\* extend_faces on a slice of one face: the insertion alone
ExtendFaces ==
  /\ held # <<>>
  /\ mesh' = Collect([mesh EXCEPT !.faces = @ \cup {held[1]}], {}, {}, {})
  /\ last' = [op |-> "extend_faces", arg |-> <<held[1]>>, res |-> "Ok", ret |-> <<>>]
  /\ held' = <<>>
  /\ pre' = mesh
  /\ UNCHANGED <<issued, steps, debug_assertions>>

\* move_faces on a vector of one face: the insertion alone
MoveFaces ==
  /\ held # <<>>
  /\ mesh' = Collect([mesh EXCEPT !.faces = @ \cup {held[1]}], {}, {}, {})
  /\ last' = [op |-> "move_faces", arg |-> <<held[1]>>, res |-> "Ok", ret |-> <<>>]
  /\ held' = <<>>
  /\ pre' = mesh
  /\ UNCHANGED <<issued, steps, debug_assertions>>

RegisterNext ==
  \/ \E p1, p2, p3 \in mesh.vertices :
       /\ p1 < p2 /\ p1 < p3 /\ p2 # p3
       /\ PairMakeTriangle(p1, p2, p3)
  \/ EmptyTriangle
  \/ PushFace
  \/ ExtendFaces
  \/ MoveFaces
  \/ PairAddTriangle

RegisterSpec == PairInit /\ [][RegisterNext]_vars

\* ------------------------------------ links rewired through the public setters

\* A tetrahedron whose caller rewires edges with Edge::set_next / set_pair (to
\* any registered edge or to the empty handle) and runs the adjacency iterators.
WireInit ==
  /\ mesh \in {from_tetrahedron_pts(d) : d \in BOOLEAN}
  /\ pre = mesh
  /\ last = [op |-> "new", arg |-> <<>>, res |-> "Ok", ret |-> <<>>]
  /\ steps = 0
  /\ held = <<>>
  /\ issued = <<>>
  /\ debug_assertions \in BOOLEAN

\* Edge::set_next, take_next, set_next_rc
Edge_set_next(edge, next) ==
  /\ steps < MaxSets
  /\ ~Stopped(last.res)
  /\ mesh' = [mesh EXCEPT !.e[edge].next = next]
  /\ last' = [op |-> "Edge.set_next", arg |-> <<edge, next>>, res |-> "Ok", ret |-> <<>>]
  /\ pre' = mesh
  /\ steps' = steps + 1
  /\ UNCHANGED <<issued, held, debug_assertions>>

\* Edge::set_pair, take_pair, set_pair_rc
Edge_set_pair(edge, pair) ==
  /\ steps < MaxSets
  /\ ~Stopped(last.res)
  /\ mesh' = [mesh EXCEPT !.e[edge].pair = pair]
  /\ last' = [op |-> "Edge.set_pair", arg |-> <<edge, pair>>, res |-> "Ok", ret |-> <<>>]
  /\ pre' = mesh
  /\ steps' = steps + 1
  /\ UNCHANGED <<issued, held, debug_assertions>>

\* an iterator run to its end: the handles it yielded, or no end at all
Iterated(op, target, items) ==
  /\ ~Stopped(last.res)
  /\ last' = [op |-> op, arg |-> <<target>>,
              res |-> IF Diverges(items) THEN "hang" ELSE "Ok",
              ret |-> IF Diverges(items) THEN <<>> ELSE items]
  /\ mesh' = mesh
  /\ pre' = mesh
  /\ UNCHANGED <<issued, steps, held, debug_assertions>>

Vert_adjacent_verts(vert) == Iterated("Vert.adjacent_verts", vert, VertVerts(mesh, vert))

Vert_adjacent_edges(vert) == Iterated("Vert.adjacent_edges", vert, VertEdges(mesh, vert))

Vert_adjacent_faces(vert) == Iterated("Vert.adjacent_faces", vert, VertFaces(mesh, vert))

Edge_adjacent_verts(edge) ==
  Iterated("Edge.adjacent_verts", edge, EdgeAdjacentVerts(mesh, edge))

Edge_adjacent_edges(edge) ==
  Iterated("Edge.adjacent_edges", edge, EdgeAdjacentEdges(mesh, edge))

Edge_adjacent_faces(edge) ==
  Iterated("Edge.adjacent_faces", edge, EdgeAdjacentFaces(mesh, edge))

Face_adjacent_verts(face) == Iterated("Face.adjacent_verts", face, FaceVerts(mesh, face))

Face_adjacent_edges(face) == Iterated("Face.adjacent_edges", face, FaceEdges(mesh, face))

Face_adjacent_faces(face) == Iterated("Face.adjacent_faces", face, FaceFaces(mesh, face))

WireNext ==
  \/ \E edge \in mesh.edges, next \in mesh.edges \cup {Null} : Edge_set_next(edge, next)
  \/ \E edge \in mesh.edges, pair \in mesh.edges \cup {Null} : Edge_set_pair(edge, pair)
  \/ \E vert \in mesh.vertices : Vert_adjacent_verts(vert)
  \/ \E vert \in mesh.vertices : Vert_adjacent_edges(vert)
  \/ \E vert \in mesh.vertices : Vert_adjacent_faces(vert)
  \/ \E edge \in mesh.edges : Edge_adjacent_verts(edge)
  \/ \E edge \in mesh.edges : Edge_adjacent_edges(edge)
  \/ \E edge \in mesh.edges : Edge_adjacent_faces(edge)
  \/ \E face \in mesh.faces : Face_adjacent_verts(face)
  \/ \E face \in mesh.faces : Face_adjacent_edges(face)
  \/ \E face \in mesh.faces : Face_adjacent_faces(face)

WireSpec == WireInit /\ [][WireNext]_vars

\* ------------------------------------------------- the unimplemented edits

\* flip_edge: unimplemented!()
flip_edge(m, edge) == [m |-> m, res |-> "abort"]

\* flip_edge_ptr: the call is forwarded when the handle upgrades; None => ()
flip_edge_ptr(m, edge) ==
  IF EdgeAlive(m, edge) THEN flip_edge(m, edge) ELSE [m |-> m, res |-> "Ok"]

\* split_edge: unimplemented!()
split_edge(m, edge) == [m |-> m, res |-> "abort"]

\* split_edge_rc: the call is forwarded when the handle upgrades; None => ()
split_edge_rc(m, edge) ==
  IF EdgeAlive(m, edge) THEN split_edge(m, edge) ELSE [m |-> m, res |-> "Ok"]

\* what a call of one of the four leaves behind
Edited(op, edge, r) ==
  /\ ~Stopped(last.res)
  /\ mesh' = r.m
  /\ last' = [op |-> op, arg |-> <<edge>>, res |-> r.res, ret |-> <<>>]
  /\ pre' = mesh
  /\ UNCHANGED <<issued, steps, held, debug_assertions>>

FlipEdge(edge) == Edited("flip_edge", edge, flip_edge(mesh, edge))

FlipEdgePtr(edge) == Edited("flip_edge_ptr", edge, flip_edge_ptr(mesh, edge))

SplitEdge(edge) == Edited("split_edge", edge, split_edge(mesh, edge))

SplitEdgeRc(edge) == Edited("split_edge_rc", edge, split_edge_rc(mesh, edge))

\* the Rc arguments are registered edges; a handle may also be the empty one
EditNext ==
  \/ \E edge \in mesh.edges : FlipEdge(edge)
  \/ \E edge \in mesh.edges \cup {Null} : FlipEdgePtr(edge)
  \/ \E edge \in mesh.edges : SplitEdge(edge)
  \/ \E edge \in mesh.edges \cup {Null} : SplitEdgeRc(edge)

EditSpec == Init /\ [][EditNext]_vars

\* ------------------------------------------------------- the id counters

Kinds == {"edge", "vert", "face"}

Counter(m, kind) ==
  IF kind = "edge" THEN m.cur_edge_id
  ELSE IF kind = "vert" THEN m.cur_vert_id
  ELSE m.cur_face_id

\* A tetrahedron on which the id functions are called directly.  Each counter
\* starts where the constructor left it or, after that many more calls, one
\* below its largest value; ids 1 .. upto were handed out before.
IdInit ==
  /\ \E ce, cv, cf \in {0, IdMax - 1} :
       LET t == from_tetrahedron_pts(TRUE) IN
       mesh = [t EXCEPT !.cur_edge_id = IF ce = 0 THEN @ ELSE ce,
                        !.cur_vert_id = IF cv = 0 THEN @ ELSE cv,
                        !.cur_face_id = IF cf = 0 THEN @ ELSE cf]
  /\ pre = mesh
  /\ last = [op |-> "new", arg |-> <<>>, res |-> "Ok", ret |-> <<>>]
  /\ steps = 0
  /\ held = <<>>
  /\ issued = [kind \in Kinds |-> [upto |-> Counter(mesh, kind), since |-> <<>>]]
  /\ debug_assertions \in BOOLEAN

\* what a call of an id function leaves in last and issued
IdReturned(op, kind, r) ==
  /\ last' = [op |-> op, arg |-> <<>>, res |-> r.res,
              ret |-> IF r.res = "Ok" THEN <<r.id>> ELSE <<>>]
  /\ issued' = IF r.res = "Ok"
               THEN [issued EXCEPT ![kind].since = Append(@, r.id)]
               ELSE issued
  /\ pre' = mesh
  /\ steps' = steps + 1
  /\ UNCHANGED <<held, debug_assertions>>

NewEdgeId ==
  /\ steps < MaxIds /\ ~Stopped(last.res)
  /\ LET r == new_id(mesh.cur_edge_id, debug_assertions) IN
     /\ mesh' = [mesh EXCEPT !.cur_edge_id = r.id]
     /\ IdReturned("new_edge_id", "edge", r)

NewVertId ==
  /\ steps < MaxIds /\ ~Stopped(last.res)
  /\ LET r == new_id(mesh.cur_vert_id, debug_assertions) IN
     /\ mesh' = [mesh EXCEPT !.cur_vert_id = r.id]
     /\ IdReturned("new_vert_id", "vert", r)

NewFaceId ==
  /\ steps < MaxIds /\ ~Stopped(last.res)
  /\ LET r == new_id(mesh.cur_face_id, debug_assertions) IN
     /\ mesh' = [mesh EXCEPT !.cur_face_id = r.id]
     /\ IdReturned("new_face_id", "face", r)

\* mesh.faces.remove(&id), as the topology operations unregister a face
FacesRemove(face) ==
  /\ ~Stopped(last.res)
  /\ mesh' = Collect([mesh EXCEPT !.faces = @ \ {face}], {}, {}, {})
  /\ last' = [op |-> "faces.remove", arg |-> <<face>>, res |-> "Ok", ret |-> <<>>]
  /\ pre' = mesh
  /\ UNCHANGED <<issued, steps, held, debug_assertions>>

IdNext ==
  \/ NewEdgeId
  \/ NewVertId
  \/ NewFaceId
  \/ \E face \in mesh.faces : FacesRemove(face)

IdSpec == IdInit /\ [][IdNext]_vars

\* ------------------------------------------ meshes built from an index list

\* the triangles over three different vertices out of MaxIdx
IndexTris ==
  {t \in [1..3 -> 1..MaxIdx] : t[1] # t[2] /\ t[2] # t[3] /\ t[1] # t[3]}

\* the index lists of at most MaxFaces such triangles, the same triangle more
\* than once included
IndexLists == UNION {[1..k -> IndexTris] : k \in 1..MaxFaces}

\* the order in which the edge table of m is walked
EdgeOrder(m, descending) ==
  IF descending THEN Descending(m.edges) ELSE Ascending(m.edges)

IndexInit ==
  \E indices \in IndexLists : \E descending \in BOOLEAN :
    /\ debug_assertions \in BOOLEAN
    /\ LET r == from_face_vertex_mesh(MaxIdx, indices, descending, debug_assertions) IN
       /\ r.res = "Ok"
       /\ mesh = r.m
       /\ last = [op |-> "from_face_vertex_mesh", arg |-> indices, res |-> r.connected,
                  ret |-> <<descending>>]
    /\ pre = mesh
    /\ steps = 0
    /\ held = <<>>
    /\ issued = <<>>

\* connect_pairs called once more on the mesh
IndexConnect(descending) ==
  /\ steps < MaxSets
  /\ LET r == connect_pairs(mesh, EdgeOrder(mesh, descending)) IN
     /\ mesh' = r.m
     /\ last' = [op |-> "connect_pairs", arg |-> last.arg, res |-> r.res,
                 ret |-> <<descending>>]
  /\ pre' = mesh
  /\ steps' = steps + 1
  /\ UNCHANGED <<issued, held, debug_assertions>>

\* are_edge_pairs_valid on the mesh
IndexVerify(descending) ==
  /\ last.op # "are_edge_pairs_valid"
  /\ last' = [op |-> "are_edge_pairs_valid", arg |-> last.arg,
              res |-> are_edge_pairs_valid(mesh, EdgeOrder(mesh, descending)),
              ret |-> <<descending>>]
  /\ mesh' = mesh
  /\ pre' = mesh
  /\ UNCHANGED <<issued, steps, held, debug_assertions>>

IndexNext ==
  \/ \E descending \in BOOLEAN : IndexConnect(descending)
  \/ \E descending \in BOOLEAN : IndexVerify(descending)

IndexSpec == IndexInit /\ [][IndexNext]_vars

\* ------------------------------------------------------------------ properties

\* a closed, paired, triangulated mesh: every link resolves to a registered
\* entity, pairs are mutual and opposite, faces are 3-edge loops, and no two
\* half-edges run from the same origin to the same target
ValidClosedMesh(m) ==
  /\ DOMAIN m.e = m.edges /\ DOMAIN m.v = m.vertices /\ DOMAIN m.f = m.faces
  /\ \A e \in m.edges :
       LET r == m.e[e] IN
       /\ r.next \in m.edges /\ r.pair \in m.edges
       /\ r.origin \in m.vertices /\ r.face \in m.faces
       /\ r.pair # e /\ m.e[r.pair].pair = e
       /\ r.next # e /\ m.e[r.next].next # e /\ m.e[m.e[r.next].next].next = e
       /\ m.e[r.next].face = r.face
       /\ m.e[r.pair].origin = m.e[r.next].origin
       /\ m.e[m.e[r.pair].next].origin = r.origin
  /\ \A e1, e2 \in m.edges :
       (/\ m.e[e1].origin = m.e[e2].origin
        /\ m.e[m.e[e1].next].origin = m.e[m.e[e2].next].origin) => e1 = e2
  /\ \A v \in m.vertices : m.v[v].edge \in m.edges /\ m.e[m.v[v].edge].origin = v
  /\ \A f \in m.faces : m.f[f].edge \in m.edges /\ m.e[m.f[f].edge].face = f

\* the registered half-edges that leave v
Outgoing(m, v) == {e \in m.edges : m.e[e].origin = v}

\* C1: for every registered edge e whose pair link resolves to p, the pair
\* link of p resolves back to e, in every state reached from the constructors
\* by triangulate_face, attach_point_for_faces and remove_vert (Ok or Err)
C1_PairInvolution ==
  \A e \in mesh.edges :
    EdgeAlive(mesh, mesh.e[e].pair) => mesh.e[mesh.e[e].pair].pair = e

C1_Witness ==
  /\ steps = MaxSteps
  /\ last.op = "attach_point_for_faces" /\ last.res = "Ok"
  /\ pre.cur_vert_id > 4
  /\ \E e \in mesh.edges : EdgeAlive(mesh, mesh.e[e].pair)

\* the three edges of the loop that starts at e, when it is a 3-edge loop
IsTriangleLoop(m, e) ==
  LET e1 == m.e[e].next IN
  /\ EdgeAlive(m, e1) /\ e1 # e
  /\ LET e2 == m.e[e1].next IN
     /\ EdgeAlive(m, e2) /\ e2 # e /\ e2 # e1
     /\ m.e[e2].next = e

IncidentFaces(m, v) == {m.e[e].face : e \in Outgoing(m, v)}

\* the outgoing half-edges of v and their pairs
IncidentEdges(m, v) == Outgoing(m, v) \cup {m.e[e].pair : e \in Outgoing(m, v)}

\* C3: after a successful remove_vert(v) on a vertex with exactly 3 incident
\* edges, v is no longer registered, none of the 3 faces incident to v before
\* the call is registered (the face count drops by 2 net), and the 6
\* half-edges incident to v are no longer registered
C3_RemoveVertRemovesIncident ==
  (/\ last.op = "remove_vert" /\ last.res = "Ok"
   /\ ValidClosedMesh(pre)
   /\ Cardinality(Outgoing(pre, last.arg[1])) = 3)
  => /\ last.arg[1] \notin mesh.vertices
     /\ IncidentFaces(pre, last.arg[1]) \cap mesh.faces = {}
     /\ Cardinality(mesh.faces) = Cardinality(pre.faces) - 2
     /\ IncidentEdges(pre, last.arg[1]) \cap mesh.edges = {}

\* C4: when attach_point_for_faces returns the "Horizon is malformed" error
\* the mesh is exactly as before the call: tables, id counters and every
\* link, each vertex's incident-edge pointer included
C4_MalformedHorizonUnchanged ==
  (/\ last.op = "attach_point_for_faces"
   /\ last.res = "Horizon is malformed - it does not form a connected loop")
  => mesh = pre

\* C5: attach_point_for_faces with an empty removal list, or with one that
\* covers every face of the mesh, returns "No horizon edges found", and
\* whenever it returns that error the mesh is as before the call: same
\* tables, same links, same id counters
C5_NoHorizonUnchanged ==
  last.op = "attach_point_for_faces" =>
    /\ (last.arg = <<>> \/ SeqToSet(last.arg) = pre.faces)
         => last.res = "No horizon edges found"
    /\ last.res = "No horizon edges found" => mesh = pre

C5_Witness ==
  /\ last.op = "attach_point_for_faces"
  /\ last.res = "No horizon edges found"
  /\ SeqToSet(last.arg) = pre.faces /\ pre.faces # {}
  /\ steps = MaxSteps /\ pre.cur_vert_id > 4

C7_ConnectPairsErrorUnchanged ==
  (last.op = "connect_pairs" /\ last.res # "Ok")
  => \A e \in pre.edges : mesh.e[e].pair = pre.e[e].pair

\* the vertex that the half-edge e runs to
Target(m, e) == m.e[m.e[e].pair].origin

\* C8: Vert.adjacent_verts on a vertex of a valid closed mesh yields one item
\* per outgoing edge of the vertex, each neighbour exactly once, in the order
\* of the targets of the edges that Vert.adjacent_edges yields
C8_AdjacentVertsRevolution ==
  (last.op = "Vert.adjacent_verts" /\ ValidClosedMesh(pre))
  => LET edges == VertEdges(pre, last.arg[1]) IN
     /\ Len(last.ret) = Cardinality(Outgoing(pre, last.arg[1]))
     /\ \A i, j \in DOMAIN last.ret : last.ret[i] = last.ret[j] => i = j
     /\ last.ret = [i \in DOMAIN edges |-> Target(pre, edges[i])]

\* C9: triangulate_face on a registered face of a closed, paired, triangulated
\* mesh returns with 2 more registered faces and 1 more registered vertex,
\* and are_edge_pairs_valid returns Ok on the resulting mesh for every order
\* in which it may walk the edge table
C9_TriangulateCounts ==
  (last.op = "triangulate_face" /\ ValidClosedMesh(pre))
  => /\ last.res = "Ok"
     /\ Cardinality(mesh.faces) = Cardinality(pre.faces) + 2
     /\ Cardinality(mesh.vertices) = Cardinality(pre.vertices) + 1
     /\ \A order \in TableOrders(mesh.edges) : are_edge_pairs_valid(mesh, order) = "Ok"

C9_Witness ==
  /\ last.op = "triangulate_face" /\ last.res = "Ok"
  /\ ValidClosedMesh(pre)
  /\ Cardinality(pre.faces) = 4
  /\ Cardinality(mesh.faces) = 6 /\ Cardinality(mesh.vertices) = 5

\* C10 as stated: triangulate_face leaves exactly 2 more entries in the edge
\* table, alongside 1 more vertex and 2 more faces
C10_TwoMoreEdges ==
  (last.op = "triangulate_face" /\ last.res = "Ok" /\ ValidClosedMesh(pre))
  => /\ Cardinality(mesh.edges) = Cardinality(pre.edges) + 2
     /\ Cardinality(mesh.vertices) = Cardinality(pre.vertices) + 1
     /\ Cardinality(mesh.faces) = Cardinality(pre.faces) + 2

\* C10: triangulate_face on a registered triangular face leaves exactly 6 more
\* entries in the edge table (3 spokes, each a pair of half-edges; every edge
\* registered before stays registered), alongside 1 more vertex and 2 more faces
C10_SixMoreEdges ==
  (last.op = "triangulate_face" /\ last.res = "Ok" /\ ValidClosedMesh(pre))
  => /\ Cardinality(mesh.edges) = Cardinality(pre.edges) + 6
     /\ pre.edges \subseteq mesh.edges
     /\ Cardinality(mesh.vertices) = Cardinality(pre.vertices) + 1
     /\ Cardinality(mesh.faces) = Cardinality(pre.faces) + 2

C10_Witness ==
  /\ last.op = "triangulate_face" /\ last.res = "Ok"
  /\ ValidClosedMesh(pre)
  /\ Cardinality(pre.edges) = 24 /\ Cardinality(mesh.edges) = 30

\* C11: from_tetrahedron_pts yields 4 registered vertices, 12 half-edges and 4
\* faces, from_octahedron_pts 6 vertices, 24 half-edges and 8 faces, and on
\* both are_edge_pairs_valid returns Ok, whatever the order in which it walks
\* the edge table
C11_ConstructorCounts ==
  last.op = "new" =>
    /\ (\E d \in BOOLEAN : mesh = from_tetrahedron_pts(d))
         => /\ Cardinality(mesh.vertices) = 4
            /\ Cardinality(mesh.edges) = 12
            /\ Cardinality(mesh.faces) = 4
    /\ (\E d \in BOOLEAN : mesh = from_octahedron_pts(d))
         => /\ Cardinality(mesh.vertices) = 6
            /\ Cardinality(mesh.edges) = 24
            /\ Cardinality(mesh.faces) = 8
    /\ \A order \in TableOrders(mesh.edges) : are_edge_pairs_valid(mesh, order) = "Ok"
    /\ \A e \in mesh.edges :
         /\ EdgeAlive(mesh, mesh.e[e].pair)
         /\ mesh.e[mesh.e[e].pair].origin = mesh.e[mesh.e[e].next].origin
         /\ mesh.e[mesh.e[mesh.e[e].pair].next].origin = mesh.e[e].origin

C11_WitnessTetrahedron ==
  /\ last.op = "new" /\ mesh = from_tetrahedron_pts(TRUE)
  /\ Cardinality(mesh.edges) = 12

\* the links that the registered entities of m hold, by the kind of entity
\* they designate
EdgeLinks(m) ==
  {m.e[e].next : e \in m.edges} \cup {m.e[e].pair : e \in m.edges}
    \cup {m.v[v].edge : v \in m.vertices} \cup {m.f[f].edge : f \in m.faces}

VertLinks(m) == {m.e[e].origin : e \in m.edges}

FaceLinks(m) == {m.e[e].face : e \in m.edges}

\* C12: after triangulate_face, a successful attach_point_for_faces or a
\* successful remove_vert, no registered vertex, edge or face holds a link
\* (edge, next, pair, origin, face) that designates an entity which that
\* operation removed from its table
C12_NoLinkToRemoved ==
  (/\ last.op \in {"triangulate_face", "attach_point_for_faces", "remove_vert"}
   /\ last.res = "Ok"
   /\ ValidClosedMesh(pre))
  => /\ EdgeLinks(mesh) \cap (pre.edges \ mesh.edges) = {}
     /\ VertLinks(mesh) \cap (pre.vertices \ mesh.vertices) = {}
     /\ FaceLinks(mesh) \cap (pre.faces \ mesh.faces) = {}

\* the vertex at the head of e, read through its next link
HeadVert(m, e) == m.e[m.e[e].next].origin

\* the registered edges of m that run from the head of e to its origin
ReverseEdges(m, e) ==
  {p \in m.edges : m.e[p].origin = HeadVert(m, e) /\ HeadVert(m, p) = m.e[e].origin}

\* the next loops are wired, no edge has a pair link, every (origin, target)
\* key is carried by exactly one edge and its reverse key by some edge
Pairable(m) ==
  /\ m.edges # {}
  /\ \A e \in m.edges :
       /\ m.e[e].pair = Null
       /\ VertAlive(m, m.e[e].origin)
       /\ EdgeAlive(m, m.e[e].next)
       /\ VertAlive(m, HeadVert(m, e))
  /\ \A e \in m.edges : ReverseEdges(m, e) # {}
  /\ \A e1, e2 \in m.edges :
       (m.e[e1].origin = m.e[e2].origin /\ HeadVert(m, e1) = HeadVert(m, e2)) => e1 = e2

\* C13: connect_pairs on such a mesh returns Ok and sets the pair of each edge
\* to the one edge that carries its reverse key, so that afterwards every edge
\* has a pair and pair is involutive; this for every order in which the edge
\* table is walked
C13_ConnectPairsCorrect ==
  (last.op = "connect_pairs" /\ Pairable(pre))
  => /\ last.res = "Ok"
     /\ mesh.edges = pre.edges
     /\ \A e \in mesh.edges :
          /\ ReverseEdges(pre, e) = {mesh.e[e].pair}
          /\ mesh.e[mesh.e[e].pair].pair = e
     /\ [mesh EXCEPT !.e = pre.e] = pre
     /\ \A e \in mesh.edges : [mesh.e[e] EXCEPT !.pair = Null] = pre.e[e]

C13_Witness ==
  /\ last.op = "connect_pairs" /\ last.res = "Ok"
  /\ Pairable(pre)
  /\ Cardinality(mesh.edges) = 6
  /\ \A e \in mesh.edges : mesh.e[e].pair \in mesh.edges \ {e}

IteratorOps ==
  {"Vert.adjacent_verts", "Vert.adjacent_edges", "Vert.adjacent_faces",
   "Edge.adjacent_verts", "Edge.adjacent_edges", "Edge.adjacent_faces",
   "Face.adjacent_verts", "Face.adjacent_edges", "Face.adjacent_faces"}

\* C14: an adjacency iterator run on a mesh whose links were set through the
\* public setters comes to an end: it never goes on yielding for ever.
C14_IteratorsTerminate ==
  last.op \in IteratorOps => last.res = "Ok"

\* the i-th edge of the ring v.edge, v.edge.pair.next, ...
RECURSIVE RingEdge(_, _, _)
RingEdge(m, v, i) ==
  IF i = 1 THEN m.v[v].edge
  ELSE m.e[m.e[RingEdge(m, v, i - 1)].pair].next

\* C15: on a valid closed mesh Vert.adjacent_edges yields exactly the
\* registered half-edges whose origin is the vertex, each once, starting with
\* v.edge and stepping from e to e.pair.next; Vert.adjacent_faces yields, in
\* that order, the face of each of those edges
C15_VertRing ==
  LET v == last.arg[1] IN
  /\ (last.op = "Vert.adjacent_edges" /\ ValidClosedMesh(pre))
     => /\ last.res = "Ok"
        /\ SeqToSet(last.ret) = Outgoing(pre, v)
        /\ Len(last.ret) = Cardinality(Outgoing(pre, v))
        /\ \A i \in DOMAIN last.ret : last.ret[i] = RingEdge(pre, v, i)
  /\ (last.op = "Vert.adjacent_faces" /\ ValidClosedMesh(pre))
     => /\ last.res = "Ok"
        /\ Len(last.ret) = Cardinality(Outgoing(pre, v))
        /\ \A i \in DOMAIN last.ret : last.ret[i] = pre.e[RingEdge(pre, v, i)].face

C15_WitnessEdges ==
  /\ last.op = "Vert.adjacent_edges" /\ last.res = "Ok"
  /\ ValidClosedMesh(pre)
  /\ Len(last.ret) = 4

C15_WitnessFaces ==
  /\ last.op = "Vert.adjacent_faces" /\ last.res = "Ok"
  /\ ValidClosedMesh(pre)
  /\ Cardinality(pre.faces) = 6
  /\ Len(last.ret) = 3
  /\ \A i, j \in DOMAIN last.ret : last.ret[i] = last.ret[j] => i = j

\* the boundary of face f as the code follows it, when it is a loop of three
\* distinct alive edges: face.edge, its next, the next of that
Boundary(m, f) ==
  LET e1 == m.f[f].edge
      e2 == IF EdgeAlive(m, e1) THEN m.e[e1].next ELSE Null
      e3 == IF EdgeAlive(m, e2) THEN m.e[e2].next ELSE Null
  IN <<e1, e2, e3>>

ThreeEdgeLoop(m, f) ==
  LET b == Boundary(m, f) IN
  /\ \A i \in 1..3 : EdgeAlive(m, b[i])
  /\ b[1] # b[2] /\ b[2] # b[3] /\ b[1] # b[3]
  /\ m.e[b[3]].next = b[1]

\* every boundary edge of f has a pair link that resolves
BoundaryPaired(m, f) ==
  \A i \in 1..3 : EdgeAlive(m, m.e[Boundary(m, f)[i]].pair)

\* Face.adjacent_edges and Face.adjacent_verts on a face with a 3-edge loop
FaceWalkOfThree ==
  LET f == last.arg[1]
      b == Boundary(pre, f)
  IN /\ (last.op = "Face.adjacent_edges" /\ ThreeEdgeLoop(pre, f))
        => last.res = "Ok" /\ last.ret = b
     /\ (last.op = "Face.adjacent_verts" /\ ThreeEdgeLoop(pre, f))
        => last.res = "Ok" /\ last.ret = [i \in 1..3 |-> pre.e[b[i]].origin]

\* C16 as stated: for a face whose boundary is a 3-edge next loop,
\* Face.adjacent_edges yields face.edge, its next and the next of that,
\* Face.adjacent_verts their origins, and Face.adjacent_faces the face of the
\* pair of each of the three, in that order
C16_FaceWalks ==
  /\ FaceWalkOfThree
  /\ (last.op = "Face.adjacent_faces" /\ ThreeEdgeLoop(pre, last.arg[1]))
     => /\ last.res = "Ok"
        /\ Len(last.ret) = 3
        /\ \A i \in 1..3 :
             LET p == pre.e[Boundary(pre, last.arg[1])[i]].pair IN
             EdgeAlive(pre, p) /\ last.ret[i] = pre.e[p].face

\* C16 amended: the same, where Face.adjacent_faces yields the three faces
\* when the pair link of each of the three boundary edges resolves
C16_FaceWalksPaired ==
  /\ FaceWalkOfThree
  /\ (/\ last.op = "Face.adjacent_faces"
      /\ ThreeEdgeLoop(pre, last.arg[1])
      /\ BoundaryPaired(pre, last.arg[1]))
     => /\ last.res = "Ok"
        /\ last.ret = [i \in 1..3 |->
                         pre.e[pre.e[Boundary(pre, last.arg[1])[i]].pair].face]

\* the three faces across the boundary, yielded after a pair link was reset
C16_Witness ==
  /\ last.op = "Face.adjacent_faces" /\ last.res = "Ok"
  /\ steps = 1
  /\ ThreeEdgeLoop(pre, last.arg[1]) /\ BoundaryPaired(pre, last.arg[1])
  /\ Len(last.ret) = 3
  /\ \E i \in 1..3 :
       LET b == Boundary(pre, last.arg[1]) IN pre.e[pre.e[b[i]].pair].pair # b[i]

\* what make_triangle(v1, v2, v3) returns and leaves behind, the vertices'
\* edge handles aside
TriangleMade ==
  LET f1 == last.ret[1]
      e == <<last.ret[2], last.ret[3], last.ret[4]>>
  IN /\ last.res = "Ok"
     /\ mesh.edges = pre.edges /\ mesh.vertices = pre.vertices /\ mesh.faces = pre.faces
     /\ mesh.cur_edge_id = pre.cur_edge_id + 3
     /\ mesh.cur_face_id = pre.cur_face_id + 1
     /\ mesh.cur_vert_id = pre.cur_vert_id
     /\ e[1] # e[2] /\ e[2] # e[3] /\ e[1] # e[3]
     /\ \A i \in 1..3 :
          /\ e[i] \notin DOMAIN pre.e /\ EdgeAlive(mesh, e[i])
          /\ mesh.e[e[i]].pair = Null
          /\ mesh.e[e[i]].next = e[(i % 3) + 1]
          /\ mesh.e[e[i]].origin = last.arg[i]
          /\ mesh.e[e[i]].face = f1
     /\ f1 \notin DOMAIN pre.f /\ FaceAlive(mesh, f1)
     /\ \A x \in DOMAIN pre.e : mesh.e[x] = pre.e[x]
     /\ \A x \in DOMAIN pre.f : mesh.f[x] = pre.f[x]

\* C17 as stated: make_triangle(v1, v2, v3) leaves the three tables unchanged,
\* advances the edge id counter by 3 and the face id counter by 1, returns
\* edges with null pairs, the next loop e1 -> e2 -> e3 -> e1, origins v1, v2,
\* v3 and the returned face as their face, and sets each vi's edge handle to ei
C17_MakeTriangle ==
  last.op = "make_triangle"
  => /\ TriangleMade
     /\ \A i \in 1..3 : mesh.v[last.arg[i]].edge = last.ret[i + 1]

\* C17 amended: the same, where vi's edge handle is ei unless the same vertex
\* is passed again at a later position
C17_MakeTriangleLastPosition ==
  last.op = "make_triangle"
  => /\ TriangleMade
     /\ \A i \in 1..3 :
          (\A j \in 1..3 : j > i => last.arg[j] # last.arg[i])
          => mesh.v[last.arg[i]].edge = last.ret[i + 1]

\* a second triangle made over three distinct vertices, the first registered
C17_Witness ==
  /\ last.op = "make_triangle" /\ last.res = "Ok"
  /\ Cardinality({last.arg[i] : i \in 1..3}) = 3
  /\ Cardinality(pre.edges) = 3
  /\ mesh.cur_edge_id = 6 /\ mesh.edges = pre.edges
  /\ \A i \in 1..3 : mesh.v[last.arg[i]].edge = last.ret[i + 1]

FallibleOps ==
  {"attach_point_for_faces", "remove_vert", "connect_pairs", "are_edge_pairs_valid"}

C18_WitnessConnectPairs ==
  /\ last.op = "connect_pairs"
  /\ steps = 2
  /\ ~ValidClosedMesh(pre)
  /\ ~Stopped(last.res)

\* the ids of one kind handed out before position i of issued[kind].since
EarlierIds(kind, i) ==
  (1 .. issued[kind].upto) \cup {issued[kind].since[j] : j \in 1..(i - 1)}

\* C19 as stated: every id that new_edge_id, new_vert_id or new_face_id
\* returns differs from every id returned earlier for the same kind, after
\* removals and once the counter has reached its largest value too
C19_IdsNeverReused ==
  issued # <<>> =>
    \A kind \in Kinds : \A i \in DOMAIN issued[kind].since :
      issued[kind].since[i] \notin EarlierIds(kind, i)

\* C19 amended: every id returned differs from every id returned earlier
\* for the same kind, after removals too, for as long as the counter has not
\* been stepped past its largest value (the call that does so returns 0
\* where overflow is unchecked); where overflow is checked that call
\* does not return
C19_IdsUniqueUntilWrap ==
  issued # <<>> =>
    \A kind \in Kinds :
      /\ \A i \in DOMAIN issued[kind].since :
           (\A j \in 1..(i - 1) : issued[kind].since[j] # 0)
           => issued[kind].since[i] \notin EarlierIds(kind, i)
      /\ debug_assertions => Counter(mesh, kind) >= Counter(pre, kind)
      /\ debug_assertions => 0 \notin SeqToSet(issued[kind].since)

\* the largest id handed out after a face was removed, the counter not wrapped
C19_Witness ==
  /\ issued # <<>>
  /\ last.op = "new_face_id" /\ last.res = "Ok"
  /\ last.ret = <<IdMax>>
  /\ Cardinality(mesh.faces) < 4
  /\ issued["edge"].since = <<IdMax, 0>>

RegisteringOps == {"push_face", "extend_faces", "move_faces", "add_triangle"}

\* C20: push_face, extend_faces, move_faces and add_triangle invoke
\* compute_attrs on the face they register: a face on which compute_attrs
\* does not return (its boundary yields fewer than three vertices) cannot
\* enter the face table through any of them
C20_RegistrationComputesAttrs ==
  last.op \in RegisteringOps =>
    \A f \in mesh.faces \ pre.faces : compute_attrs(pre, f, debug_assertions) = "Ok"

UnimplementedOps == {"flip_edge", "flip_edge_ptr", "split_edge", "split_edge_rc"}

\* C21: a call of flip_edge or split_edge, made directly or through
\* flip_edge_ptr or split_edge_rc, aborts whatever its argument: none returns
\* normally with the mesh unchanged, a handle that does not resolve included
C21_UnimplementedAbort ==
  last.op \in UnimplementedOps => last.res = "abort"

\* the boundary edges of the faces in R whose pair lies in a face outside R
HorizonOf(m, R) ==
  {e \in m.edges :
     /\ \E f \in R : FaceAlive(m, f) /\ e \in SeqToSet(FaceEdges(m, f))
     /\ EdgeAlive(m, m.e[e].pair)
     /\ FaceAlive(m, m.e[m.e[e].pair].face)
     /\ m.e[m.e[e].pair].face \notin R}

\* the horizon edges that leave the vertex at the head of h
HorizonSucc(m, H, h) == {g \in H : m.e[g].origin = HeadVert(m, h)}

\* the k-th horizon edge after h
RECURSIVE HorizonAfter(_, _, _, _)
HorizonAfter(m, H, h, k) ==
  IF k = 0 THEN h
  ELSE CHOOSE g \in HorizonSucc(m, H, HorizonAfter(m, H, h, k - 1)) : TRUE

\* the horizon is one closed loop: every horizon edge has one successor, and
\* following successors from any of them passes through all of them
SingleLoop(m, H) ==
  /\ H # {}
  /\ \A h \in H : EdgeAlive(m, m.e[h].next) /\ Cardinality(HorizonSucc(m, H, h)) = 1
  /\ \A h \in H : {HorizonAfter(m, H, h, k) : k \in 0..(Cardinality(H) - 1)} = H

\* C22: when attach_point_for_faces returns Ok for a removal set whose horizon
\* is a single closed loop of n edges, it returns n new registered faces; the
\* face on horizon edge h is the loop h -> leading -> trailing -> h, leading
\* leaves the origin of h's successor, trailing leaves the new apex; leading
\* is paired with the trailing edge of the successor's face; one vertex and
\* 2n edges are new; are_edge_pairs_valid then returns Ok
C22_AttachFan ==
  LET R == SeqToSet(last.arg)
      H == HorizonOf(pre, R)
      apex == pre.cur_vert_id + 1
      Leading(h) == mesh.e[h].next
      Trailing(h) == mesh.e[Leading(h)].next
  IN (/\ last.op = "attach_point_for_faces" /\ last.res = "Ok"
      /\ SingleLoop(pre, H))
     => /\ Len(last.ret) = Cardinality(H)
        /\ Cardinality(SeqToSet(last.ret)) = Cardinality(H)
        /\ SeqToSet(last.ret) = mesh.faces \ pre.faces
        /\ SeqToSet(last.ret) \cap DOMAIN pre.f = {}
        /\ mesh.vertices \ pre.vertices = {apex}
        /\ apex \notin DOMAIN pre.v
        /\ Cardinality(mesh.edges \ pre.edges) = 2 * Cardinality(H)
        /\ (mesh.edges \ pre.edges) \cap DOMAIN pre.e = {}
        /\ \A h \in H :
             LET s == HorizonAfter(pre, H, h, 1) IN
             /\ h \in mesh.edges
             /\ mesh.e[h].face \in SeqToSet(last.ret)
             /\ mesh.f[mesh.e[h].face].edge = h
             /\ Leading(h) \in mesh.edges \ pre.edges
             /\ Trailing(h) \in mesh.edges \ pre.edges
             /\ mesh.e[Trailing(h)].next = h
             /\ mesh.e[Leading(h)].face = mesh.e[h].face
             /\ mesh.e[Trailing(h)].face = mesh.e[h].face
             /\ mesh.e[Leading(h)].origin = pre.e[s].origin
             /\ mesh.e[Trailing(h)].origin = apex
             /\ mesh.e[Leading(h)].pair = Trailing(s)
             /\ mesh.e[Trailing(s)].pair = Leading(h)
        /\ \A order \in TableOrders(mesh.edges) : are_edge_pairs_valid(mesh, order) = "Ok"

\* two faces that share an edge replaced by a fan of four
C22_Witness ==
  /\ last.op = "attach_point_for_faces" /\ last.res = "Ok"
  /\ ValidClosedMesh(pre)
  /\ SingleLoop(pre, HorizonOf(pre, SeqToSet(last.arg)))
  /\ Cardinality(HorizonOf(pre, SeqToSet(last.arg))) = 4
  /\ Len(last.ret) = 4

\* the fan of C22 on a pre-state that is a closed paired triangle mesh
C22_AttachFanOnClosed == ValidClosedMesh(pre) => C22_AttachFan

\* C23: whenever attach_point_for_faces returns Ok on a closed paired mesh,
\* every horizon edge is re-attached: its face link designates a registered
\* face created by the call and its next link a registered edge, and no
\* registered edge points at a removed face or a removed edge, also when the
\* horizon consists of several disjoint loops
C23_HorizonReattached ==
  LET R == SeqToSet(last.arg)
      H == HorizonOf(pre, R)
  IN (/\ last.op = "attach_point_for_faces" /\ last.res = "Ok"
      /\ ValidClosedMesh(pre))
     => /\ \A h \in H :
             /\ h \in mesh.edges
             /\ mesh.e[h].face \in mesh.faces \ pre.faces
             /\ mesh.e[h].face \in SeqToSet(last.ret)
             /\ mesh.e[h].next \in mesh.edges
        /\ \A e \in mesh.edges :
             /\ mesh.e[e].face \notin pre.faces \ mesh.faces
             /\ mesh.e[e].next \notin pre.edges \ mesh.edges
             /\ mesh.e[e].pair \notin pre.edges \ mesh.edges

\* the first loop of attach_point_for_faces on the mesh and the removal list
\* of the last call
LastClassified ==
  classify_faces(
    [m |-> pre, horizon_edges |-> {}, remove_edges |-> <<>>,
     remove_verts |-> <<>>, iter_edge |-> Null, res |-> "Ok"],
    SeqToSet(last.arg), last.arg, 1)

\* the successor map that the first loop's outcome c gives
NextMapOf(c) ==
  IF c.res = "Ok" THEN horizon_next_map(c.m, c.horizon_edges) ELSE <<>>

\* a call with first-loop outcome c and successor map nm comes past the
\* key-set = value-set check
CheckPassed(c, nm) ==
  /\ c.res = "Ok"
  /\ c.iter_edge # Null
  /\ \A h \in c.horizon_edges : horizon_candidates(c.m, c.horizon_edges, h) # <<Diverged>>
  /\ DOMAIN nm = {nm[h] : h \in DOMAIN nm}

\* the walk w over nm is back at the start edge within the number of horizon
\* edges, and looked up only keys of nm and of the edge table
WalkClosed(c, nm, w) ==
  /\ w.res = "Ok"
  /\ Len(w.vec) <= Cardinality(c.horizon_edges)
  /\ w.vec[1] = c.iter_edge
  /\ \A i \in DOMAIN w.vec : w.vec[i] \in DOMAIN nm /\ w.vec[i] \in c.m.edges

WalkChecked(c, nm) ==
  CheckPassed(c, nm) => WalkClosed(c, nm, horizon_walk(c.m, nm, c.iter_edge, c.iter_edge, <<>>))

WalkOfFour(c, nm, w) ==
  /\ CheckPassed(c, nm)
  /\ w.res = "Ok"
  /\ Len(w.vec) = 4
  /\ Cardinality(SeqToSet(w.vec)) = 4

WalkedFour(c, nm) ==
  WalkOfFour(c, nm, horizon_walk(c.m, nm, c.iter_edge, c.iter_edge, <<>>))

Anchored(m) ==
  \A v \in m.vertices :
    /\ VertAlive(m, v)
    /\ m.v[v].edge \in m.edges
    /\ EdgeAlive(m, m.v[v].edge)
    /\ m.e[m.v[v].edge].origin = v

\* the operations of C25, when they succeed
AnchoringOps == {"new", "triangulate_face", "attach_point_for_faces", "remove_vert"}

\* C25: the constructors anchor every vertex, and triangulate_face, a
\* successful attach_point_for_faces and a successful remove_vert on a mesh
\* whose vertices are anchored leave every registered vertex anchored
C25_VertexAnchoring ==
  (/\ last.op \in AnchoringOps /\ last.res = "Ok"
   /\ (last.op # "new" => Anchored(pre)))
  => Anchored(mesh)

\* the meshes that the two constructors build
Constructed ==
  {from_tetrahedron_pts(d) : d \in BOOLEAN} \cup {from_octahedron_pts(d) : d \in BOOLEAN}

\* the last call gave back the vertices and edges of m0, the boundary b of the
\* triangulated face as one loop in one registered face, and valid pairs
Restored(m0, b) ==
  /\ last.res = "Ok"
  /\ mesh.vertices = m0.vertices
  /\ mesh.edges = m0.edges
  /\ \A e \in m0.edges :
       /\ EdgeAlive(mesh, e)
       /\ mesh.e[e].origin = m0.e[e].origin
       /\ mesh.e[e].pair = m0.e[e].pair
  /\ Len(b) = 3
  /\ \A i \in 1..3 :
       /\ mesh.e[b[i]].next = b[(i % 3) + 1]
       /\ mesh.e[b[i]].face = mesh.e[b[1]].face
  /\ mesh.e[b[1]].face \in mesh.faces
  /\ FaceAlive(mesh, mesh.e[b[1]].face)
  /\ mesh.e[b[1]].face \notin m0.faces
  /\ mesh.f[mesh.e[b[1]].face].edge \in SeqToSet(b)
  /\ \A order \in TableOrders(mesh.edges) : are_edge_pairs_valid(mesh, order) = "Ok"

\* the mesh before the last call is m0 with face f triangulated, and the last
\* call took the apex of that triangulation
Triangulated(m0, f) ==
  /\ last.arg = <<m0.cur_vert_id + 1>>
  /\ pre = triangulate_face(m0, f, debug_assertions).m

\* C26: on a closed paired mesh, triangulate_face(p, f) followed by remove_vert
\* on the new apex returns Ok, restores the registered vertices and edges with
\* their origin and pair links, leaves the three boundary edges of f as one
\* next loop in their original order in one registered replacement face, and
\* are_edge_pairs_valid then returns Ok
C26_RemoveUndoesTriangulate ==
  last.op = "remove_vert" =>
    \A m0 \in Constructed : \A f \in m0.faces :
      Triangulated(m0, f) => Restored(m0, FaceEdges(m0, f))

\* remove_vert on the apex of a triangulated octahedron face
C26_Witness ==
  /\ last.op = "remove_vert" /\ last.res = "Ok"
  /\ Cardinality(mesh.edges) = 24
  /\ \E m0 \in Constructed : \E f \in m0.faces : Triangulated(m0, f)

\* the operations that run connect_pairs and report its answer
ConnectingOps == {"from_face_vertex_mesh", "connect_pairs"}

\* C27: whenever connect_pairs returns Ok on a mesh, one built by
\* from_face_vertex_mesh from any triangle index list included,
\* are_edge_pairs_valid on the resulting mesh returns Ok too, walking the edge
\* table in the same order
C27_ConnectThenValid ==
  (last.op \in ConnectingOps /\ last.res = "Ok")
  => are_edge_pairs_valid(mesh, EdgeOrder(mesh, last.ret[1])) = "Ok"

====
